---- MODULE Spec2Model ----
(***************************************************************************)
(* Strudel Sample Explorer: the sound library store (zustand store         *)
(* soundStore), the export/import transfer format and the import dialog    *)
(* that drives the store.                                                  *)
(*                                                                         *)
(* The store is one record, as in zustand: every operation is a function   *)
(* from the current store state to the next one (set(state => ...)), and   *)
(* a handler that calls several operations composes them.                  *)
(***************************************************************************)
EXTENDS Naturals, Sequences, FiniteSets, TLC

VARIABLES
  store,          \* the zustand state: the five collections and the custom-URL registry
  pendingImport,  \* ExportImport's useState: the selected file awaiting confirmation
  json,           \* the text handed to parseImportData (tracked by SpecParse only)
  parsed,         \* what parseImportData made of json (tracked by SpecParse only)
  localStorage,   \* the text stored under the key 'strudel-sound-storage'
  hydration,      \* how the last startup's rehydration from localStorage ended
  manifest,       \* the parsed strudel.json handed to extractSounds
  extracted,      \* what extractSounds made of manifest
  grouping,       \* the sounds handed to groupSoundsByCategory and what it returned
  loader,         \* useStrudelJson's and App's loading state, and the loads in flight
  searcher,       \* useGitHubSearch's state, and the searches in flight
  player,         \* useAudioPlayer's refs and state, and the audio elements it made
  lastOp          \* history: the operation that produced this state, and its arguments

vars == <<store, pendingImport, json, parsed, localStorage, hydration,
          manifest, extracted, grouping, loader, searcher, player, lastOp>>

-----------------------------------------------------------------------------
(* Bounds of the model *)

\* longest repository list carried by an import
MaxImport == 2

\* longest custom-URL list given to an export
MaxCustomUrls == 2

-----------------------------------------------------------------------------
(* Sequences *)

Range(seq) == {seq[i] : i \in 1..Len(seq)}

\* all sequences over S of length at most n
SeqsUpTo(S, n) == UNION {[1..m -> S] : m \in 0..n}

-----------------------------------------------------------------------------
(* Repositories *)

\* the LoadedRepository record
LoadedRepository(owner, repo, path, url, sounds, isCustomUrl) ==
  [owner |-> owner, repo |-> repo, path |-> path, branch |-> "main",
   strudel_json_url |-> url, sounds |-> sounds, isCustomUrl |-> isCustomUrl]

\* `${repo.owner}/${repo.repo}/${repo.path}`
getRepositoryKey(repo) == repo.owner \o "/" \o repo.repo \o "/" \o repo.path

\* name.replace(/\s+/g, '-').toLowerCase(), on a name given as its characters
toLowerCase(c) ==
  CASE c = "M" -> "m"
    [] c = "K" -> "k"
    [] c = "S" -> "s"
    [] c = "J" -> "j"
    [] c = "O" -> "o"
    [] c = "N" -> "n"
    [] OTHER -> c

RECURSIVE slugFrom(_, _)
slugFrom(chars, inSpace) ==
  IF chars = <<>> THEN ""
  ELSE IF Head(chars) = " "
       THEN (IF inSpace THEN "" ELSE "-") \o slugFrom(Tail(chars), TRUE)
       ELSE toLowerCase(Head(chars)) \o slugFrom(Tail(chars), FALSE)

Slug(name) == slugFrom(name, FALSE)

RECURSIVE Join(_)
Join(chars) == IF chars = <<>> THEN "" ELSE Head(chars) \o Join(Tail(chars))

-----------------------------------------------------------------------------
(* The sound extractor: src/utils/sound-processor *)

\* A parsed JSON value handed to extractSounds.  Strings are sequences of
\* characters (s), arrays are sequences of values (a), objects are sequences
\* of key/value entries in enumeration order (o); a number is kept as its
\* decimal digits (s).
VUndefined == [t |-> "undefined", s |-> <<>>, a |-> <<>>, o |-> <<>>]
VNull      == [t |-> "null",      s |-> <<>>, a |-> <<>>, o |-> <<>>]
VNum(d)    == [t |-> "number",    s |-> d,    a |-> <<>>, o |-> <<>>]
VStr(c)    == [t |-> "string",    s |-> c,    a |-> <<>>, o |-> <<>>]
VArr(e)    == [t |-> "array",     s |-> <<>>, a |-> e,    o |-> <<>>]
VObj(e)    == [t |-> "object",    s |-> <<>>, a |-> <<>>, o |-> e]

Entry(key, value) == [key |-> key, value |-> value]

\* JavaScript truthiness of a value
VTruthy(v) ==
  CASE v.t \in {"undefined", "null"} -> FALSE
    [] v.t = "string" -> v.s # <<>>
    [] v.t = "number" -> v.s # <<"0">>
    [] OTHER -> TRUE

\* a || b
VOr(a, b) == IF VTruthy(a) THEN a ELSE b

\* typeof v === 'object' (null included, as in JavaScript)
TypeofObject(v) == v.t \in {"object", "array", "null"}

\* v[key] for a value that is neither null nor undefined: an object's own
\* property; undefined for the named keys of strings, numbers and arrays
GetProperty(v, key) ==
  IF v.t = "object" /\ \E i \in 1..Len(v.o) : v.o[i].key = key
  THEN v.o[CHOOSE i \in 1..Len(v.o) : v.o[i].key = key].value
  ELSE VUndefined

\* the decimal digits of a small array index
Digits(n) == <<ToString(n)>>

\* Object.entries(v): an object's entries, an array's elements under their
\* indices, a string's characters under their indices, nothing for a number
ObjectEntries(v) ==
  CASE v.t = "object" -> v.o
    [] v.t = "array"  -> [i \in 1..Len(v.a) |-> Entry(Digits(i - 1), v.a[i])]
    [] v.t = "string" -> [i \in 1..Len(v.s) |-> Entry(Digits(i - 1), VStr(<<v.s[i]>>))]
    [] OTHER -> <<>>

\* String.prototype.startsWith
startsWith(chars, prefix) ==
  Len(chars) >= Len(prefix) /\ SubSeq(chars, 1, Len(prefix)) = prefix

\* String.prototype.trim
WhiteSpace == {" ", "\t", "\n"}

RECURSIVE trimStart(_)
trimStart(chars) ==
  IF chars # <<>> /\ Head(chars) \in WhiteSpace THEN trimStart(Tail(chars)) ELSE chars

RECURSIVE trimEnd(_)
trimEnd(chars) ==
  IF chars # <<>> /\ chars[Len(chars)] \in WhiteSpace
  THEN trimEnd(SubSeq(chars, 1, Len(chars) - 1)) ELSE chars

trim(chars) == trimEnd(trimStart(chars))

HTTP  == <<"h", "t", "t", "p", ":", "/", "/">>
HTTPS == <<"h", "t", "t", "p", "s", ":", "/", "/">>

\* resolveUrl without the test for an absolute URL
resolveUrl_AlwaysPrepends(url, baseUrl) ==
  IF VTruthy(baseUrl) THEN baseUrl.s \o url ELSE url

\* extractSounds' resolveUrl, baseUrl being strudelJson._base || ''
resolveUrl(url, baseUrl) ==
  IF startsWith(url, HTTP) \/ startsWith(url, HTTPS) THEN url
  ELSE IF VTruthy(baseUrl) THEN baseUrl.s \o url
  ELSE url

\* the Sound record
Sound(id, name, url, category, repository, owner, path) ==
  [id |-> id, name |-> name, url |-> url, category |-> category,
   repository |-> repository, owner |-> owner, path |-> path]

\* the indices 1..n, in the order forEach visits them
Indices(n) == [i \in 1..n |-> i]

\* the concatenation of a sequence of sequences
RECURSIVE Flatten(_)
Flatten(seqs) == IF seqs = <<>> THEN <<>> ELSE Head(seqs) \o Flatten(Tail(seqs))

\* categorySounds naming by the number of sounds emitted for the category
categorySounds_CountsEmitted(category, urls, baseUrl, owner, repo, filePath) ==
  LET urlArray == IF urls.t = "array" THEN urls.a ELSE <<urls>>
      Emitted(i) == urlArray[i].t = "string" /\ trim(urlArray[i].s) # <<>>
      kept == SelectSeq(Indices(Len(urlArray)), Emitted)
  IN  [k \in 1..Len(kept) |->
         LET index == kept[k] - 1 IN
         Sound(owner \o "/" \o repo \o "/" \o Join(category) \o "/" \o ToString(index),
               Join(category) \o (IF Len(kept) > 1 THEN "-" \o ToString(index + 1) ELSE ""),
               Join(resolveUrl(trim(urlArray[kept[k]].s), baseUrl)),
               Join(category), owner \o "/" \o repo, owner, filePath)]

\* categorySounds with ids of the form owner/repo/index
categorySounds_IdWithoutCategory(category, urls, baseUrl, owner, repo, filePath) ==
  LET urlArray == IF urls.t = "array" THEN urls.a ELSE <<urls>>
      Emitted(i) == urlArray[i].t = "string" /\ trim(urlArray[i].s) # <<>>
      kept == SelectSeq(Indices(Len(urlArray)), Emitted)
  IN  [k \in 1..Len(kept) |->
         LET index == kept[k] - 1 IN
         Sound(owner \o "/" \o repo \o "/" \o ToString(index),
               Join(category) \o (IF Len(urlArray) > 1 THEN "-" \o ToString(index + 1) ELSE ""),
               Join(resolveUrl(trim(urlArray[kept[k]].s), baseUrl)),
               Join(category), owner \o "/" \o repo, owner, filePath)]

\* the body of extractSounds' urlArray.forEach, for one category: a sound for
\* every entry that is a string with something other than white space in it
categorySounds(category, urls, baseUrl, owner, repo, filePath) ==
  LET urlArray == IF urls.t = "array" THEN urls.a ELSE <<urls>>
      Emitted(i) == urlArray[i].t = "string" /\ trim(urlArray[i].s) # <<>>
      kept == SelectSeq(Indices(Len(urlArray)), Emitted)
  IN  [k \in 1..Len(kept) |->
         LET index == kept[k] - 1 IN
         Sound(owner \o "/" \o repo \o "/" \o Join(category) \o "/" \o ToString(index),
               Join(category) \o (IF Len(urlArray) > 1 THEN "-" \o ToString(index + 1) ELSE ""),
               Join(resolveUrl(trim(urlArray[kept[k]].s), baseUrl)),
               Join(category), owner \o "/" \o repo, owner, filePath)]

\* the names of the properties extractSounds reads
BASE    == <<"_", "b", "a", "s", "e">>
SOUNDS  == <<"s", "o", "u", "n", "d", "s">>
SAMPLES == <<"s", "a", "m", "p", "l", "e", "s">>

\* the outcome of extractSounds: the list it returns, or a TypeError
Sounds(list) == [ok |-> TRUE, list |-> list]
TypeError == [ok |-> FALSE, list |-> <<>>]
NoSounds == Sounds(<<>>)
NoManifest == VUndefined

\* extractSounds looking at samples before sounds
extractSounds_SamplesFirst(strudelJson, owner, repo, filePath) ==
  IF strudelJson.t \in {"null", "undefined"} THEN TypeError   \* strudelJson._base
  ELSE
    LET baseUrl == VOr(GetProperty(strudelJson, BASE), VStr(<<>>))
        soundsData == VOr(GetProperty(strudelJson, SAMPLES), GetProperty(strudelJson, SOUNDS))
        nested == VTruthy(soundsData) /\ TypeofObject(soundsData)
        all == ObjectEntries(IF nested THEN soundsData ELSE strudelJson)
        Category(i) == nested \/ ~(all[i].key = BASE \/ startsWith(all[i].key, <<"_">>))
        entries == SelectSeq(Indices(Len(all)), Category)
    IN  Sounds(Flatten([k \in 1..Len(entries) |->
                 categorySounds(all[entries[k]].key, all[entries[k]].value,
                                baseUrl, owner, repo, filePath)]))

\* extractSounds without the test that skips the special keys
extractSounds_KeepsUnderscored(strudelJson, owner, repo, filePath) ==
  IF strudelJson.t \in {"null", "undefined"} THEN TypeError   \* strudelJson._base
  ELSE
    LET baseUrl == VOr(GetProperty(strudelJson, BASE), VStr(<<>>))
        soundsData == VOr(GetProperty(strudelJson, SOUNDS), GetProperty(strudelJson, SAMPLES))
        nested == VTruthy(soundsData) /\ TypeofObject(soundsData)
        all == ObjectEntries(IF nested THEN soundsData ELSE strudelJson)
        Category(i) == TRUE
        entries == SelectSeq(Indices(Len(all)), Category)
    IN  Sounds(Flatten([k \in 1..Len(entries) |->
                 categorySounds(all[entries[k]].key, all[entries[k]].value,
                                baseUrl, owner, repo, filePath)]))

extractSounds(strudelJson, owner, repo, filePath) ==
  IF strudelJson.t \in {"null", "undefined"} THEN TypeError   \* strudelJson._base
  ELSE
    LET baseUrl == VOr(GetProperty(strudelJson, BASE), VStr(<<>>))
        soundsData == VOr(GetProperty(strudelJson, SOUNDS), GetProperty(strudelJson, SAMPLES))
        nested == VTruthy(soundsData) /\ TypeofObject(soundsData)
        all == ObjectEntries(IF nested THEN soundsData ELSE strudelJson)
        Category(i) == nested \/ ~(all[i].key = BASE \/ startsWith(all[i].key, <<"_">>))
        entries == SelectSeq(Indices(Len(all)), Category)
    IN  Sounds(Flatten([k \in 1..Len(entries) |->
                 categorySounds(all[entries[k]].key, all[entries[k]].value,
                                baseUrl, owner, repo, filePath)]))

-----------------------------------------------------------------------------
(* Grouping: groupSoundsByCategory and the enumeration of its result *)

\* a sound as groupSoundsByCategory reads it: category?: string
CategorisedSound(id, category) == [id |-> id, category |-> category]

UNCATEGORIZED == <<"u", "n", "c", "a", "t", "e", "g", "o", "r", "i", "z", "e", "d">>

\* the properties the accumulator {} inherits from Object.prototype
ObjectPrototype ==
  {"constructor", "hasOwnProperty", "isPrototypeOf", "propertyIsEnumerable",
   "toLocaleString", "toString", "valueOf", "__proto__", "__defineGetter__",
   "__defineSetter__", "__lookupGetter__", "__lookupSetter__"}

\* the accumulator: its own properties in creation order; ok is FALSE once
\* the reducer has raised
Accumulator(own) == [ok |-> TRUE, own |-> own]
Raised(own) == [ok |-> FALSE, own |-> own]

HasOwn(own, key) == \E i \in 1..Len(own) : own[i].key = key

\* the reducer of groupSoundsByCategory.  acc[category] is an own array, or an
\* inherited member of Object.prototype (truthy, and without push), or
\* undefined
groupStep(acc, sound) ==
  LET category == VOr(sound.category, VStr(UNCATEGORIZED)).s IN
  IF HasOwn(acc.own, category)
  THEN Accumulator([i \in 1..Len(acc.own) |->
         IF acc.own[i].key = category
         THEN Entry(category, Append(acc.own[i].value, sound))
         ELSE acc.own[i]])
  ELSE IF Join(category) \in ObjectPrototype
       THEN Raised(acc.own)                 \* acc[category].push is not a function
       ELSE Accumulator(Append(acc.own, Entry(category, <<sound>>)))

RECURSIVE reduce(_, _)
reduce(sounds, acc) ==
  IF sounds = <<>> \/ ~acc.ok THEN acc
  ELSE reduce(Tail(sounds), groupStep(acc, Head(sounds)))

groupSoundsByCategory(sounds) == reduce(sounds, Accumulator(<<>>))

\* Property keys that are array indices: canonical decimal numerals up to
\* 2^32 - 2.  Object.entries enumerates them first, in ascending order, and
\* the other keys after them in creation order.
Digit == {"0", "1", "2", "3", "4", "5", "6", "7", "8", "9"}

DigitValue(c) == CHOOSE n \in 0..9 : ToString(n) = c

MaxArrayIndex == <<"4", "2", "9", "4", "9", "6", "7", "2", "9", "4">>

\* a < b for numerals of the same length
RECURSIVE LexLess(_, _)
LexLess(a, b) ==
  /\ a # <<>>
  /\ \/ DigitValue(Head(a)) < DigitValue(Head(b))
     \/ Head(a) = Head(b) /\ LexLess(Tail(a), Tail(b))

IsArrayIndex(key) ==
  /\ key # <<>>
  /\ \A i \in 1..Len(key) : key[i] \in Digit
  /\ Len(key) = 1 \/ key[1] # "0"
  /\ \/ Len(key) < Len(MaxArrayIndex)
     \/ Len(key) = Len(MaxArrayIndex) /\ ~LexLess(MaxArrayIndex, key)

IndexLess(a, b) == Len(a) < Len(b) \/ (Len(a) = Len(b) /\ LexLess(a, b))

\* Object.entries(groupedSounds), as the cards and the grid enumerate the groups
GroupEntries(own) ==
  SortSeq(SelectSeq(own, LAMBDA e : IsArrayIndex(e.key)),
          LAMBDA x, y : IndexLess(x.key, y.key))
    \o SelectSeq(own, LAMBDA e : ~IsArrayIndex(e.key))

\* a grouping: the sounds given, and the entries of the result once the call
\* has returned (ok) or raised
Grouping(sounds, done, ok, entries) ==
  [sounds |-> sounds, done |-> done, ok |-> ok, entries |-> entries]

NoGrouping == Grouping(<<>>, FALSE, TRUE, <<>>)

-----------------------------------------------------------------------------
(* The universe of inputs *)

KickOnly == <<"acme/drums/kick/0">>
KickPair == <<"acme/drums/kick/0", "acme/drums/kick/1">>

\* what a load of the search result acme/drums:strudel.json can produce: the
\* manifest at that path with one sound, or (after an upstream change) with two
LoadableRepos ==
  { LoadedRepository("acme", "drums", "strudel.json",
                     "https://github.com/acme/drums/blob/main/strudel.json", snd, FALSE)
      : snd \in {KickOnly, KickPair} }

\* the custom URLs a user may enter, and the names given to them
CustomUrls == {"https://cdn.example/strudel.json"}
CustomNames == { <<"M", "y", " ", "K", "i", "t">>, <<"m", "y", "-", "k", "i", "t">> }

\* loadCustomUrlRepository's loadedRepo for a fetched one-sound manifest
CustomRepository(url, name) ==
  LoadedRepository("custom", Slug(name), "strudel.json", url,
                   <<"custom/" \o Slug(name) \o "/kick/0">>, TRUE)

CustomRepos == {CustomRepository(u, n) : u \in CustomUrls, n \in CustomNames}

\* every repository value that can be handed to the store
AllRepos == LoadableRepos \cup CustomRepos

\* every repository key that can be handed to the store
AllKeys == {getRepositoryKey(r) : r \in AllRepos}

\* sound ids that playback can report
SoundIds == {"acme/drums/kick/0"}

\* currentlyPlaying: string | null
Null == "null"

\* the CustomUrlRepository record {url, name}
CustomUrlRepository(url, name) == [url |-> url, name |-> name]

AllCustomUrlEntries == {CustomUrlRepository(u, Join(n)) : u \in CustomUrls, n \in CustomNames}

-----------------------------------------------------------------------------
(* The store: src/store/soundStore *)

\* the state after create(): lines 41-45, and an empty custom-URL registry
InitialStore ==
  [previewRepositories |-> <<>>,
   savedRepositories   |-> <<>>,
   currentlyPlaying    |-> Null,
   collapsedRepos      |-> {},
   blockedRepos        |-> {},
   customUrls          |-> <<>>]

\* Array.prototype.some over repository keys
someKey(repos, key) == \E i \in 1..Len(repos) : getRepositoryKey(repos[i]) = key

\* Array.prototype.filter(repo => getRepositoryKey(repo) !== key)
filterKey(repos, key) == SelectSeq(repos, LAMBDA repo : getRepositoryKey(repo) # key)

\* addPreview without the lookup: the repository is always appended
addPreview_AlwaysAppends(s, repository) ==
  [s EXCEPT !.previewRepositories = Append(@, repository)]

\* addPreview that drops the old entry and appends the new one
addPreview_MovesToEnd(s, repository) ==
  [s EXCEPT !.previewRepositories =
     Append(filterKey(@, getRepositoryKey(repository)), repository)]

\* addPreview that keeps the entry Preview already has for the key
addPreview_KeepsFirst(s, repository) ==
  IF someKey(s.previewRepositories, getRepositoryKey(repository))
  THEN s
  ELSE [s EXCEPT !.previewRepositories = Append(@, repository)]

addPreview(s, repository) ==
  LET key    == getRepositoryKey(repository)
      exists == someKey(s.previewRepositories, key)
  IN  IF exists
      THEN [s EXCEPT !.previewRepositories =
              [i \in 1..Len(@) |-> IF getRepositoryKey(@[i]) = key THEN repository ELSE @[i]]]
      ELSE [s EXCEPT !.previewRepositories = Append(@, repository)]

removePreview(s, repoKey) ==
  [s EXCEPT !.previewRepositories = filterKey(@, repoKey)]

clearPreviews(s) ==
  [s EXCEPT !.previewRepositories = <<>>, !.currentlyPlaying = Null]

\* saveRepository that leaves the promoted entry in Preview
saveRepository_KeepsPreview(s, repository) ==
  IF someKey(s.savedRepositories, getRepositoryKey(repository))
  THEN s
  ELSE [s EXCEPT !.savedRepositories = Append(@, repository)]

\* saveRepository that overwrites the saved entry of the same key
saveRepository_Overwrites(s, repository) ==
  LET key == getRepositoryKey(repository) IN
  IF someKey(s.savedRepositories, key)
  THEN [s EXCEPT !.savedRepositories =
          [i \in 1..Len(@) |-> IF getRepositoryKey(@[i]) = key THEN repository ELSE @[i]]]
  ELSE [s EXCEPT !.savedRepositories   = Append(@, repository),
                 !.previewRepositories = filterKey(@, key)]

saveRepository(s, repository) ==
  LET key    == getRepositoryKey(repository)
      exists == someKey(s.savedRepositories, key)
  IN  IF exists
      THEN s
      ELSE [s EXCEPT !.savedRepositories   = Append(@, repository),
                     !.previewRepositories = filterKey(@, key)]

unsaveRepository(s, repoKey) ==
  [s EXCEPT !.savedRepositories = filterKey(@, repoKey)]

setCurrentlyPlaying(s, soundId) ==
  [s EXCEPT !.currentlyPlaying = soundId]

\* importRepositories that merges the list into Saved
importRepositories_Merges(s, repositories) ==
  [s EXCEPT !.savedRepositories = @ \o repositories]

importRepositories(s, repositories) ==
  [s EXCEPT !.savedRepositories = repositories]

\* new Set(blocklist)
importBlocklist(s, blocklist) ==
  [s EXCEPT !.blockedRepos = Range(blocklist)]

toggleCollapsed(s, repoKey) ==
  [s EXCEPT !.collapsedRepos =
     IF repoKey \in @ THEN @ \ {repoKey} ELSE @ \cup {repoKey}]

\* blockRepository that forgets Saved
blockRepository_KeepsSaved(s, repoKey) ==
  [s EXCEPT !.blockedRepos        = @ \cup {repoKey},
            !.previewRepositories = filterKey(@, repoKey)]

\* blockRepository that empties Preview instead of filtering it
blockRepository_ClearsPreview(s, repoKey) ==
  [s EXCEPT !.blockedRepos        = @ \cup {repoKey},
            !.previewRepositories = <<>>,
            !.savedRepositories   = filterKey(@, repoKey)]

blockRepository(s, repoKey) ==
  [s EXCEPT !.blockedRepos        = @ \cup {repoKey},
            !.previewRepositories = filterKey(@, repoKey),
            !.savedRepositories   = filterKey(@, repoKey)]

\* unblockRepository that also drops what is previewed
unblockRepository_ClearsPreview(s, repoKey) ==
  [s EXCEPT !.blockedRepos = @ \ {repoKey}, !.previewRepositories = <<>>]

unblockRepository(s, repoKey) ==
  [s EXCEPT !.blockedRepos = @ \ {repoKey}]

clearBlocklist(s) ==
  [s EXCEPT !.blockedRepos = {}]

isSaved(s, repoKey) == someKey(s.savedRepositories, repoKey)

isCollapsed(s, repoKey) == repoKey \in s.collapsedRepos

isBlocked(s, repoKey) == repoKey \in s.blockedRepos

inPreview(s, repoKey) == someKey(s.previewRepositories, repoKey)

\* the custom-URL registry, kept by URL identity
addCustomUrl(s, url, name) ==
  IF \E i \in 1..Len(s.customUrls) : s.customUrls[i].url = url
  THEN [s EXCEPT !.customUrls =
          [i \in 1..Len(@) |-> IF @[i].url = url THEN CustomUrlRepository(url, name) ELSE @[i]]]
  ELSE [s EXCEPT !.customUrls = Append(@, CustomUrlRepository(url, name))]

removeCustomUrl(s, url) ==
  [s EXCEPT !.customUrls = SelectSeq(@, LAMBDA c : c.url # url)]

importCustomUrls(s, list) ==
  [s EXCEPT !.customUrls = list]

-----------------------------------------------------------------------------
(* The export/import transfer format: src/utils/export-import (v3.0) *)

\* A JSON property value as JavaScript sees it: absent (undefined), null, a
\* string or an array.
Absent  == [t |-> "absent", s |-> "", a |-> <<>>]
JNull   == [t |-> "null",   s |-> "", a |-> <<>>]
JStr(x) == [t |-> "string", s |-> x,  a |-> <<>>]
JArr(x) == [t |-> "array",  s |-> "", a |-> x]

\* JavaScript truthiness: undefined, null and "" are falsy; arrays are truthy
Truthy(v) ==
  CASE v.t = "absent" -> FALSE
    [] v.t = "null"   -> FALSE
    [] v.t = "string" -> v.s # ""
    [] v.t = "array"  -> TRUE

\* Array.isArray
IsArray(v) == v.t = "array"

\* the four properties of ExportData that the code reads
ExportData(version, repositories, blocklist, customUrls) ==
  [version |-> version, repositories |-> repositories,
   blocklist |-> blocklist, customUrls |-> customUrls]

NoData == ExportData(Absent, Absent, Absent, Absent)

\* The content of a file: unreadable (FileReader error), text that is not
\* JSON, the JSON text null, or the JSON text of an object.
FileText(kind, data) == [kind |-> kind, data |-> data]

Unreadable == FileText("unreadable", NoData)
NotJson    == FileText("notjson", NoData)
NullJson   == FileText("null", NoData)
ObjectJson(data) == FileText("object", data)

EXPORT_VERSION == "3.0"

\* exportToJson as it was in export version 2.0: no customUrls in the file
exportToJson_v2(repositories, blocklist, customUrls) ==
  ObjectJson(ExportData(JStr(EXPORT_VERSION), JArr(repositories), JArr(blocklist), Absent))

\* exportToJson: the text JSON.stringify makes of the ExportData object
exportToJson(repositories, blocklist, customUrls) ==
  ObjectJson(ExportData(JStr(EXPORT_VERSION), JArr(repositories), JArr(blocklist),
                        JArr(customUrls)))

\* the outcome of a call that returns or throws
Returned(data) == [ok |-> TRUE, data |-> data]
Thrown == [ok |-> FALSE, data |-> NoData]

\* JSON.parse: a SyntaxError for text that is not JSON
JSONparse(text) ==
  IF text.kind = "notjson" THEN Thrown ELSE Returned(text.data)

\* parseImportData without the Array.isArray test
parseImportData_SkipsArrayCheck(text) ==
  LET p == JSONparse(text) IN
  IF ~p.ok THEN Thrown
  ELSE IF text.kind = "null" THEN Thrown
  ELSE LET data == p.data IN
       IF ~Truthy(data.version) \/ ~Truthy(data.repositories)
       THEN Thrown
       ELSE Returned([data EXCEPT
              !.blocklist  = IF ~Truthy(@) THEN JArr(<<>>) ELSE @,
              !.customUrls = IF ~Truthy(@) THEN JArr(<<>>) ELSE @])

\* parseImportData as it was in export version 2.0: customUrls is not defaulted
parseImportData_v2(text) ==
  LET p == JSONparse(text) IN
  IF ~p.ok THEN Thrown
  ELSE IF text.kind = "null" THEN Thrown
  ELSE LET data == p.data IN
       IF ~Truthy(data.version) \/ ~Truthy(data.repositories) \/ ~IsArray(data.repositories)
       THEN Thrown
       ELSE Returned([data EXCEPT !.blocklist = IF ~Truthy(@) THEN JArr(<<>>) ELSE @])

parseImportData(text) ==
  LET p == JSONparse(text) IN
  IF ~p.ok THEN Thrown
  ELSE IF text.kind = "null" THEN Thrown   \* data.version of null: TypeError
  ELSE LET data == p.data IN
       IF ~Truthy(data.version) \/ ~Truthy(data.repositories) \/ ~IsArray(data.repositories)
       THEN Thrown
       ELSE Returned([data EXCEPT
              !.blocklist  = IF ~Truthy(@) THEN JArr(<<>>) ELSE @,
              !.customUrls = IF ~Truthy(@) THEN JArr(<<>>) ELSE @])

\* readFileAsText, then parseImportData
importFromFile(file) ==
  IF file.kind = "unreadable" THEN Thrown ELSE parseImportData(file)

\* the repository lists an import (or a direct importRepositories) may carry
RepositoryLists == SeqsUpTo(AllRepos, MaxImport)

\* the blocklist and customUrls properties an export file may have
BlocklistFields ==
  {Absent, JNull, JStr("")} \cup {JArr(b) : b \in SeqsUpTo(AllKeys, 1)}
    \cup {JArr(<<k[1], k[2]>>) : k \in {x \in AllKeys \X AllKeys : x[1] # x[2]}}

CustomUrlFields ==
  {Absent, JArr(<<>>)} \cup {JArr(<<c>>) : c \in AllCustomUrlEntries}

\* files that are not well-typed exports
OddFiles ==
  {Unreadable, NotJson, NullJson}
    \cup {ObjectJson(ExportData(v, r, JArr(<<>>), Absent)) :
            v \in {Absent, JNull, JStr(""), JStr(EXPORT_VERSION)},
            r \in {Absent, JNull, JStr("none"), JArr(<<>>)}}

\* every file text parseImportData is tried on
Files ==
  {ObjectJson(ExportData(JStr(EXPORT_VERSION), JArr(l), b, c)) :
     l \in RepositoryLists, b \in BlocklistFields, c \in CustomUrlFields}
  \cup OddFiles

\* the texts among them
Texts == {f \in Files : f.kind # "unreadable"}

\* the repositories of the export files selected in the import dialog
DialogRepos == CustomRepos \cup {r \in LoadableRepos : r.sounds = KickOnly}

\* the files selected in the import dialog: exports of the dialog's
\* repositories with and without a blocklist and custom URLs, and odd files
DialogFiles ==
  {ObjectJson(ExportData(JStr(EXPORT_VERSION), JArr(l), b, c)) :
     l \in SeqsUpTo(DialogRepos, MaxImport),
     b \in {f \in BlocklistFields : f.t # "null" /\ Len(f.a) < 2},
     c \in {f \in CustomUrlFields : f.t = "absent" \/ (Len(f.a) > 0 /\ f.a[1].name = "my-kit")}}
  \cup {Unreadable, NotJson, NullJson}
  \cup {f \in OddFiles : f.kind = "object" /\ f.data.version.t \in {"absent", "string"}
                           /\ f.data.repositories.t \in {"absent", "string", "array"}
                           /\ (f.data.version.s = EXPORT_VERSION \/ f.data.repositories.t = "array")}

-----------------------------------------------------------------------------
(* The import dialog: ExportImport.handleImport / confirmImport *)

\* pendingImport: { file, count } | null
NoImport == [pending |-> FALSE, count |-> 0]
Pending(count) == [pending |-> TRUE, count |-> count]

\* confirmImport without the length tests
applyImport_AlwaysReplaces(s, data) ==
  importCustomUrls(importBlocklist(importRepositories(s, data.repositories.a),
                                   data.blocklist.a), data.customUrls.a)

\* confirmImport's calls on the store, for the data importFromFile returned
applyImport(s, data) ==
  LET s1 == importRepositories(s, data.repositories.a)
      s2 == IF Truthy(data.blocklist) /\ Len(data.blocklist.a) > 0
            THEN importBlocklist(s1, data.blocklist.a) ELSE s1
      s3 == IF Truthy(data.customUrls) /\ Len(data.customUrls.a) > 0
            THEN importCustomUrls(s2, data.customUrls.a) ELSE s2
  IN  s3

\* loadCustomUrlRepository's calls on the store once the fetch has succeeded
applyCustomUrlLoad(s, url, name) ==
  LET loadedRepo == CustomRepository(url, name)
      s1 == addPreview(s, loadedRepo)
      s2 == saveRepository(s1, loadedRepo)
  IN  addCustomUrl(s2, url, Join(name))

-----------------------------------------------------------------------------
(* Persistence: the options given to zustand's persist middleware *)

\* persist's version option
PERSIST_VERSION == 3

\* partialize without the collapsed keys
partialize_NoCollapsed(s) ==
  [savedRepositories |-> s.savedRepositories,
   collapsedRepos    |-> {},
   blockedRepos      |-> s.blockedRepos]

\* partialize that lets Preview and the playing sound through
partialize_WithPreview(s) ==
  [savedRepositories   |-> s.savedRepositories,
   collapsedRepos      |-> s.collapsedRepos,
   blockedRepos        |-> s.blockedRepos,
   previewRepositories |-> s.previewRepositories,
   currentlyPlaying    |-> s.currentlyPlaying]

\* partialize: the part of the state that is stored
partialize(s) ==
  [savedRepositories |-> s.savedRepositories,
   collapsedRepos    |-> s.collapsedRepos,
   blockedRepos      |-> s.blockedRepos]

\* Array.from(set): the members, once each; their order is the set's insertion
\* order, which the store record does not keep, so every order is possible
ArrayFrom(S) == {q \in [1..Cardinality(S) -> S] : Range(q) = S}

\* the properties of the stored state that getItem and the store read
StoredState(saved, collapsed, blocked, favorites, loaded) ==
  [savedRepositories |-> saved, collapsedRepos |-> collapsed, blockedRepos |-> blocked,
   favoriteRepos |-> favorites, loadedRepositories |-> loaded]

NoState == StoredState(Absent, Absent, Absent, Absent, Absent)

\* The text under the storage key: none, text that is not JSON, the JSON text
\* null, JSON without a state property, or JSON with a state and a version.
StoredText(kind, state, version) == [kind |-> kind, state |-> state, version |-> version]

NothingStored  == StoredText("absent", NoState, PERSIST_VERSION)
UnparsableText == StoredText("unparsable", NoState, PERSIST_VERSION)
NullText       == StoredText("null", NoState, PERSIST_VERSION)
StatelessText  == StoredText("nostate", NoState, PERSIST_VERSION)

\* storage.setItem on the partialized state: the texts it may write
setItem(s) ==
  {StoredText("state",
              StoredState(JArr(partialize(s).savedRepositories), JArr(c), JArr(b), Absent, Absent),
              PERSIST_VERSION)
     : c \in ArrayFrom(partialize(s).collapsedRepos), b \in ArrayFrom(partialize(s).blockedRepos)}

\* a Set made by new Set(array), as a value of a stored property
JSet(S) == [t |-> "set", s |-> "", a |-> <<>>, m |-> S]
NotSet(v) == [t |-> v.t, s |-> v.s, a |-> v.a, m |-> {}]

\* the legacy migration: the loaded repositories whose key is a favorite
RECURSIVE favoritesOf(_, _)
favoritesOf(loaded, favorites) ==
  IF loaded = <<>> THEN <<>>
  ELSE (IF getRepositoryKey(Head(loaded)) \in Range(favorites) THEN <<Head(loaded)>> ELSE <<>>)
         \o favoritesOf(Tail(loaded), favorites)

\* storage.getItem: what it returns for a stored text, or that it throws
getItem(text) ==
  CASE text.kind = "absent"     -> [threw |-> FALSE, value |-> FALSE, state |-> FALSE]
    [] text.kind = "unparsable" -> [threw |-> TRUE,  value |-> FALSE, state |-> FALSE]
    [] text.kind = "null"       -> [threw |-> TRUE,  value |-> FALSE, state |-> FALSE]
    [] text.kind = "nostate"    -> [threw |-> FALSE, value |-> TRUE,  state |-> FALSE]
    [] text.kind = "state"      -> [threw |-> FALSE, value |-> TRUE,  state |-> TRUE]

\* the state property of getItem's value, arrays turned into Sets
getItemState(text) ==
  LET st == text.state IN
  [savedRepositories |->
     IF Truthy(st.favoriteRepos) /\ ~Truthy(st.savedRepositories)
     THEN (IF IsArray(st.loadedRepositories)
           THEN JArr(favoritesOf(st.loadedRepositories.a, st.favoriteRepos.a))
           ELSE JArr(<<>>))
     ELSE st.savedRepositories,
   collapsedRepos |-> IF Truthy(st.collapsedRepos) /\ IsArray(st.collapsedRepos)
                      THEN JSet(Range(st.collapsedRepos.a)) ELSE NotSet(st.collapsedRepos),
   blockedRepos   |-> IF Truthy(st.blockedRepos) /\ IsArray(st.blockedRepos)
                      THEN JSet(Range(st.blockedRepos.a)) ELSE NotSet(st.blockedRepos)]

\* The middleware's rehydration at startup: the state getItem returns is
\* merged over the initial state, {...initial, ...stored}.  Nothing is merged
\* when getItem returns null or throws, when its value has no state, or when
\* the stored version is not the version option (no migrate option is given).
\* A stored property that is not of its type (a saved list that is not an
\* array, a key set that is not a Set) is merged as it is: every later read
\* of it raises a TypeError.
rehydrate(text) ==
  LET g == getItem(text) IN
  IF g.threw THEN [store |-> InitialStore, hydration |-> "failed"]
  ELSE IF ~g.value \/ ~g.state \/ text.version # PERSIST_VERSION
  THEN [store |-> InitialStore, hydration |-> "nothing"]
  ELSE LET st == getItemState(text)
           typed == /\ st.savedRepositories.t \in {"absent", "array"}
                    /\ st.collapsedRepos.t \in {"absent", "set"}
                    /\ st.blockedRepos.t \in {"absent", "set"}
       IN  [store |->
              [InitialStore EXCEPT
                 !.savedRepositories = IF st.savedRepositories.t = "array"
                                       THEN st.savedRepositories.a ELSE @,
                 !.collapsedRepos = IF st.collapsedRepos.t = "set" THEN st.collapsedRepos.m ELSE @,
                 !.blockedRepos   = IF st.blockedRepos.t = "set" THEN st.blockedRepos.m ELSE @],
            hydration |-> IF typed THEN "merged" ELSE "illtyped"]

-----------------------------------------------------------------------------
(* History *)

NoRepo == LoadedRepository("", "", "", "", <<>>, FALSE)

\* where a key stood in the store before the operation
Standing(s, key) ==
  [previewed |-> inPreview(s, key), saved |-> isSaved(s, key), blocked |-> isBlocked(s, key)]

NoStanding == [previewed |-> FALSE, saved |-> FALSE, blocked |-> FALSE]

Op(name) ==
  [name |-> name, key |-> "", repo |-> NoRepo, repos |-> <<>>,
   blocklist |-> Absent, customUrls |-> <<>>, exported |-> FALSE,
   malformed |-> FALSE, ok |-> TRUE, pre |-> NoStanding]

OpOnKey(name, key) == [Op(name) EXCEPT !.key = key, !.pre = Standing(store, key)]

OpOnRepo(name, repo) ==
  [Op(name) EXCEPT !.key = getRepositoryKey(repo), !.repo = repo,
                   !.pre = Standing(store, getRepositoryKey(repo))]

\* a file that is not an export: unreadable, not JSON, without a version or
\* without a repositories array
Malformed(file) ==
  \/ file.kind # "object"
  \/ file.data.version.t = "absent"
  \/ file.data.repositories.t # "array"

OpOnFile(name, file, r) ==
  [Op(name) EXCEPT !.malformed = Malformed(file),
                   !.ok        = r.ok,
                   !.repos     = r.data.repositories.a,
                   !.blocklist = IF r.ok THEN file.data.blocklist ELSE Absent]

-----------------------------------------------------------------------------
(* The hooks *)

\* useState<string>() before any value is set
Undefined == "undefined"

\* useStrudelJson's isLoading and error, App's loadingItemPath, and the
\* calls of loadRepository that await their fetch: each call has the number
\* of its issue and the path of its item.  answered lists the calls that
\* have settled, in the order in which they settled.
LoadCall(id, path) == [id |-> id, path |-> path]

Answer(id, path, ok, repo, message) ==
  [id |-> id, path |-> path, ok |-> ok, repo |-> repo, message |-> message]

IdleLoader ==
  [isLoading |-> FALSE, error |-> Null, loadingItemPath |-> Undefined,
   issued |-> 0, inFlight |-> {}, answered |-> <<>>]
\* useGitHubSearch's state, App's currentQuery, and the calls of search that
\* await searchStrudelFiles; answered lists the settled calls in the order
\* in which they settled
SearchCall(id, query, page) == [id |-> id, query |-> query, page |-> page]

SearchAnswer(id, page, ok, data) == [id |-> id, page |-> page, ok |-> ok, data |-> data]

IdleSearcher ==
  [results |-> <<>>, totalCount |-> 0, currentPage |-> 1, isLoading |-> FALSE,
   error |-> Null, currentQuery |-> "", issued |-> 0, inFlight |-> {},
   answered |-> <<>>]
\* An HTMLAudioElement made by play: the sound it was made for, its paused
\* attribute, whether the promise of its latest play() is still pending, how
\* many rejected promises have their continuation still to run, whether its
\* data has arrived, whether it has reached its end, whether it has failed.
AudioElement(sound) ==
  [sound |-> sound, paused |-> TRUE, promise |-> FALSE, rejections |-> 0,
   loaded |-> FALSE, ended |-> FALSE, failed |-> FALSE]

\* HTMLMediaElement.pause(): sets paused and rejects the pending play promise
pauseElement(el) ==
  IF el.paused THEN el
  ELSE [el EXCEPT !.paused = TRUE,
                  !.promise = FALSE,
                  !.rejections = IF el.promise THEN @ + 1 ELSE @]

\* HTMLMediaElement.play(): clears paused, restarts an ended element, and
\* returns a promise that is pending until playback starts; the promise of
\* a failed element is rejected at once
playElement(el) ==
  IF el.failed THEN [el EXCEPT !.rejections = @ + 1]
  ELSE [el EXCEPT !.paused = FALSE, !.ended = FALSE, !.promise = TRUE]

\* the element gives sound
Sounding(el) == ~el.paused /\ el.loaded /\ ~el.ended /\ ~el.failed

\* audioRef.current === null
NoAudio == 0

\* useAudioPlayer: audioRef (a position in elements, or NoAudio),
\* currentSoundIdRef, isPlaying, every element made so far, and the number
\* of calls of play
IdlePlayer ==
  [audioRef |-> NoAudio, currentSoundIdRef |-> Null, isPlaying |-> FALSE,
   elements |-> <<>>, calls |-> 0]

\* play without the release of the previous element
play_KeepsPrevious(p, soundId) ==
  IF p.currentSoundIdRef = soundId /\ p.audioRef # NoAudio /\ p.elements[p.audioRef].paused
  THEN [p EXCEPT !.elements[p.audioRef] = playElement(@), !.calls = @ + 1]
  ELSE [p EXCEPT !.elements = Append(@, playElement(AudioElement(soundId))),
                 !.audioRef = Len(p.elements) + 1,
                 !.currentSoundIdRef = soundId,
                 !.calls = @ + 1]

\* play(url, soundId) up to its await: resume the paused element of the same
\* sound, or pause and drop the current element and start a new one
play(p, soundId) ==
  IF p.currentSoundIdRef = soundId /\ p.audioRef # NoAudio /\ p.elements[p.audioRef].paused
  THEN [p EXCEPT !.elements[p.audioRef] = playElement(@), !.calls = @ + 1]
  ELSE LET released == IF p.audioRef # NoAudio
                       THEN [p.elements EXCEPT ![p.audioRef] = pauseElement(@)]
                       ELSE p.elements
       IN  [p EXCEPT !.elements = Append(released, playElement(AudioElement(soundId))),
                     !.audioRef = Len(p.elements) + 1,
                     !.currentSoundIdRef = soundId,
                     !.calls = @ + 1]

\* pause(): only when there is an element and it is not paused
pause(p) == [p EXCEPT !.elements[p.audioRef] = pauseElement(@), !.isPlaying = FALSE]

\* stop(): only when there is an element; currentTime = 0 leaves the end
stop(p) ==
  [p EXCEPT !.elements[p.audioRef] = [pauseElement(@) EXCEPT !.ended = FALSE],
            !.isPlaying = FALSE,
            !.currentSoundIdRef = Null]

\* the listeners of 'ended' and 'error'
onEnded(p) == [p EXCEPT !.isPlaying = FALSE, !.currentSoundIdRef = Null]
onError(p) == [p EXCEPT !.isPlaying = FALSE, !.currentSoundIdRef = Null]

hooks == <<grouping, loader, searcher, player>>

\* the hooks of a freshly mounted App: nothing grouped, loaded, searched or played
HooksIdle ==
  /\ grouping = NoGrouping
  /\ loader = IdleLoader
  /\ searcher = IdleSearcher
  /\ player = IdlePlayer

-----------------------------------------------------------------------------
(* Actions *)

Init ==
  /\ store = InitialStore
  /\ pendingImport = NoImport
  /\ json = NotJson
  /\ parsed = Thrown
  /\ localStorage \in setItem(store)
  /\ hydration = "merged"
  /\ manifest = NoManifest
  /\ extracted = NoSounds
  /\ HooksIdle
  /\ lastOp = Op("create")

\* what no store operation touches
dialog == <<pendingImport, json, parsed, hydration, manifest, extracted, hooks>>

\* the middleware's setState: every set(...) of the store is followed by setItem
Persist == localStorage' \in setItem(store')

\* a completed loadRepository: addPreview(loadedRepo)
AddPreview ==
  \E r \in LoadableRepos :
    /\ store' = addPreview(store, r)
    /\ lastOp' = OpOnRepo("addPreview", r)
    /\ Persist
    /\ UNCHANGED dialog

RemovePreview ==
  \E k \in AllKeys :
    /\ store' = removePreview(store, k)
    /\ lastOp' = OpOnKey("removePreview", k)
    /\ Persist
    /\ UNCHANGED dialog

ClearPreviews ==
  /\ store' = clearPreviews(store)
  /\ lastOp' = Op("clearPreviews")
  /\ Persist
  /\ UNCHANGED dialog

SaveRepository ==
  \E r \in AllRepos :
    /\ store' = saveRepository(store, r)
    /\ lastOp' = OpOnRepo("saveRepository", r)
    /\ Persist
    /\ UNCHANGED dialog

UnsaveRepository ==
  \E k \in AllKeys :
    /\ store' = unsaveRepository(store, k)
    /\ lastOp' = OpOnKey("unsaveRepository", k)
    /\ Persist
    /\ UNCHANGED dialog

SetCurrentlyPlaying ==
  \E id \in SoundIds \cup {Null} :
    /\ store' = setCurrentlyPlaying(store, id)
    /\ lastOp' = Op("setCurrentlyPlaying")
    /\ Persist
    /\ UNCHANGED dialog

ImportRepositories ==
  \E l \in RepositoryLists :
    /\ store' = importRepositories(store, l)
    /\ lastOp' = [Op("importRepositories") EXCEPT !.repos = l]
    /\ Persist
    /\ UNCHANGED dialog

ImportBlocklist ==
  \E b \in {f \in BlocklistFields : IsArray(f)} :
    /\ store' = importBlocklist(store, b.a)
    /\ lastOp' = [Op("importBlocklist") EXCEPT !.blocklist = b]
    /\ Persist
    /\ UNCHANGED dialog

ToggleCollapsed ==
  \E k \in AllKeys :
    /\ store' = toggleCollapsed(store, k)
    /\ lastOp' = OpOnKey("toggleCollapsed", k)
    /\ Persist
    /\ UNCHANGED dialog

BlockRepository ==
  \E k \in AllKeys :
    /\ store' = blockRepository(store, k)
    /\ lastOp' = OpOnKey("blockRepository", k)
    /\ Persist
    /\ UNCHANGED dialog

UnblockRepository ==
  \E k \in AllKeys :
    /\ store' = unblockRepository(store, k)
    /\ lastOp' = OpOnKey("unblockRepository", k)
    /\ Persist
    /\ UNCHANGED dialog

ClearBlocklist ==
  /\ store' = clearBlocklist(store)
  /\ lastOp' = Op("clearBlocklist")
  /\ Persist
  /\ UNCHANGED dialog

RemoveCustomUrl ==
  \E u \in CustomUrls :
    /\ store' = removeCustomUrl(store, u)
    /\ lastOp' = Op("removeCustomUrl")
    /\ Persist
    /\ UNCHANGED dialog

\* a loadCustomUrlRepository whose fetch and JSON.parse succeeded
LoadCustomUrlRepository ==
  \E u \in CustomUrls, n \in CustomNames :
    /\ store' = applyCustomUrlLoad(store, u, n)
    /\ lastOp' = OpOnRepo("loadCustomUrlRepository", CustomRepository(u, n))
    /\ Persist
    /\ UNCHANGED dialog

\* the operations on the three repository collections, in any order
Next ==
  \/ AddPreview
  \/ RemovePreview
  \/ ClearPreviews
  \/ SaveRepository
  \/ UnsaveRepository
  \/ ImportRepositories
  \/ ImportBlocklist
  \/ BlockRepository
  \/ UnblockRepository
  \/ ClearBlocklist
  \/ LoadCustomUrlRepository

Spec == Init /\ [][Next]_vars

-----------------------------------------------------------------------------
(* The import dialog over a library in use *)

\* Libraries the dialog may be opened on, each built by the store's own
\* operations: the empty one, one holding a saved custom repository, and one
\* where an acme repository is blocked as well, the custom URL has been loaded
\* again (so it is previewed too), its card is collapsed and a sound plays.
SavedLibrary ==
  applyCustomUrlLoad(InitialStore, CHOOSE u \in CustomUrls : TRUE,
                     CHOOSE n \in CustomNames : Slug(n) # Join(n))

BusyLibrary ==
  LET acme   == CHOOSE r \in LoadableRepos : r.sounds = KickPair
      custom == CHOOSE r \in CustomRepos : TRUE
      s1 == blockRepository(SavedLibrary, getRepositoryKey(acme))
      s2 == applyCustomUrlLoad(s1, CHOOSE u \in CustomUrls : TRUE,
                               CHOOSE n \in CustomNames : Slug(n) = Join(n))
      s3 == toggleCollapsed(s2, getRepositoryKey(custom))
  IN  setCurrentlyPlaying(s3, CHOOSE id \in SoundIds : TRUE)

PriorStores == {InitialStore, SavedLibrary, BusyLibrary}

InitImport ==
  /\ store \in PriorStores
  /\ pendingImport = NoImport
  /\ json = NotJson
  /\ parsed = Thrown
  /\ localStorage \in setItem(store)
  /\ hydration = "merged"
  /\ manifest = NoManifest
  /\ extracted = NoSounds
  /\ HooksIdle
  /\ lastOp = Op("create")

\* a file is selected: it is read and parsed once, to show the count
HandleImport ==
  \E file \in DialogFiles :
    LET r == importFromFile(file) IN
    /\ pendingImport' = IF r.ok THEN Pending(Len(r.data.repositories.a)) ELSE pendingImport
    /\ lastOp' = [OpOnFile("handleImport", file, r) EXCEPT !.repos = <<>>, !.blocklist = Absent]
    /\ UNCHANGED <<store, json, parsed, localStorage, hydration, manifest, extracted, hooks>>

\* the import is confirmed: the file is read and parsed again, then applied
ConfirmImport ==
  /\ pendingImport.pending
  /\ \E file \in DialogFiles :
       LET r == importFromFile(file) IN
       /\ store' = IF r.ok THEN applyImport(store, r.data) ELSE store
       /\ pendingImport' = NoImport
       /\ lastOp' = OpOnFile("confirmImport", file, r)
       /\ IF r.ok THEN Persist ELSE UNCHANGED localStorage
       /\ UNCHANGED <<json, parsed, hydration, manifest, extracted, hooks>>

\* the dialog's Cancel button
CancelImport ==
  /\ pendingImport.pending
  /\ pendingImport' = NoImport
  /\ lastOp' = Op("cancelImport")
  /\ UNCHANGED <<store, json, parsed, localStorage, hydration, manifest, extracted, hooks>>

NextImport ==
  \/ HandleImport
  \/ ConfirmImport
  \/ CancelImport
  \/ ImportRepositories
  \/ ImportBlocklist

SpecImport == InitImport /\ [][NextImport]_vars

-----------------------------------------------------------------------------
(* The library across restarts *)

AcmeKey == getRepositoryKey(CHOOSE r \in LoadableRepos : TRUE)

\* texts under the storage key that this version's setItem did not write:
\* unparsable text, the text null, JSON without a state, a state whose saved
\* list is null, a state of the legacy favoriteRepos layout, a state written
\* under the previous version number, and a blocklist naming a key twice
IllTypedText ==
  StoredText("state", StoredState(JNull, JArr(<<>>), JArr(<<AcmeKey>>), Absent, Absent),
             PERSIST_VERSION)

LegacyText ==
  StoredText("state",
             StoredState(Absent, JArr(<<>>), Absent, JArr(<<AcmeKey>>),
                         JArr(<<CHOOSE r \in CustomRepos : TRUE,
                                CHOOSE r \in LoadableRepos : r.sounds = KickOnly>>)),
             PERSIST_VERSION)

OldVersionText ==
  StoredText("state", StoredState(JArr(<<>>), JArr(<<>>), JArr(<<AcmeKey>>), Absent, Absent),
             PERSIST_VERSION - 1)

DuplicateText ==
  StoredText("state", StoredState(JArr(<<>>), JArr(<<>>), JArr(<<AcmeKey, AcmeKey>>),
                                  Absent, Absent),
             PERSIST_VERSION)

CorruptTexts == {UnparsableText, NullText, StatelessText, IllTypedText}

ForeignTexts ==
  CorruptTexts \cup {NothingStored, LegacyText, OldVersionText, DuplicateText}

InitPersist ==
  /\ store = InitialStore
  /\ pendingImport = NoImport
  /\ json = NotJson
  /\ parsed = Thrown
  /\ localStorage \in setItem(store)
  /\ hydration = "merged"
  /\ manifest = NoManifest
  /\ extracted = NoSounds
  /\ HooksIdle
  /\ lastOp = Op("create")

\* The application is closed and started again: the store is created anew
\* and rehydrated from localStorage; after a rehydration that did not fail,
\* the middleware writes the state back.  A stored saved list that is not an
\* array is written back as it is.
Restart ==
  LET r == rehydrate(localStorage) IN
  /\ store' = r.store
  /\ hydration' = r.hydration
  /\ pendingImport' = NoImport
  /\ localStorage' \in
       CASE r.hydration = "failed" -> {localStorage}
         [] r.hydration = "illtyped" ->
              {[x EXCEPT !.state.savedRepositories = getItemState(localStorage).savedRepositories]
                 : x \in setItem(r.store)}
         [] OTHER -> setItem(r.store)
  /\ lastOp' = [Op("restart") EXCEPT !.repos = store.previewRepositories,
                                     !.key = store.currentlyPlaying,
                                     !.ok = (r.hydration = "merged")]
  /\ UNCHANGED <<json, parsed, manifest, extracted, hooks>>

\* the text under the storage key is replaced from outside the store (another
\* version of the application, the browser's tools, a damaged profile)
StorageReplaced ==
  /\ localStorage' \in ForeignTexts
  /\ lastOp' = Op("storageReplaced")
  /\ UNCHANGED <<store, pendingImport, json, parsed, hydration, manifest, extracted, hooks>>

\* every read of a stored property that is not of its type raises a TypeError
Usable == hydration # "illtyped"

NextPersist ==
  \/ Restart
  \/ StorageReplaced
  \/ Usable /\ AddPreview
  \/ Usable /\ SaveRepository
  \/ Usable /\ BlockRepository
  \/ Usable /\ ToggleCollapsed
  \/ Usable /\ SetCurrentlyPlaying

SpecPersist == InitPersist /\ [][NextPersist]_vars

-----------------------------------------------------------------------------
(* parseImportData on its own *)

InitParse ==
  /\ store = InitialStore
  /\ pendingImport = NoImport
  /\ json \in Texts
  /\ parsed = Thrown
  /\ localStorage \in setItem(store)
  /\ hydration = "merged"
  /\ manifest = NoManifest
  /\ extracted = NoSounds
  /\ HooksIdle
  /\ lastOp = Op("create")

\* the blocklists and custom-URL lists an export is made of
ExportBlocklists == {b.a : b \in {f \in BlocklistFields : IsArray(f)}}
ExportCustomUrls == SeqsUpTo(AllCustomUrlEntries, MaxCustomUrls)

\* exportToJson(repositories, blocklist, customUrls)
ExportToJson ==
  \E l \in RepositoryLists, b \in ExportBlocklists, c \in ExportCustomUrls :
    /\ lastOp.name # "parseImportData"   \* one text is followed from its making to its parsing
    /\ json' = exportToJson(l, b, c)
    /\ lastOp' = [Op("exportToJson") EXCEPT !.repos = l, !.blocklist = JArr(b),
                                           !.customUrls = c, !.exported = TRUE]
    /\ UNCHANGED <<store, pendingImport, parsed, localStorage, hydration, manifest, extracted, hooks>>

\* parseImportData(json); the history keeps what json was exported from
ParseImportData ==
  /\ parsed' = parseImportData(json)
  /\ lastOp' = [lastOp EXCEPT !.name = "parseImportData", !.ok = parseImportData(json).ok]
  /\ UNCHANGED <<store, pendingImport, json, localStorage, hydration, manifest, extracted, hooks>>

NextParse ==
  \/ ExportToJson
  \/ ParseImportData

SpecParse == InitParse /\ [][NextParse]_vars

-----------------------------------------------------------------------------
(* extractSounds on its own: the manifests it is given *)

\* URL strings of a manifest: relative, absolute, padded with white space,
\* blank and empty
RelUrl    == <<"k", "1", ".", "w", "a", "v">>
AbsUrl    == <<"h", "t", "t", "p", "s", ":", "/", "/", "o", "t", "h", "e", "r", ".", "c", "d", "n", "/", "k", "2", ".", "w", "a", "v">>
HttpUrl   == <<"h", "t", "t", "p", ":", "/", "/", "a", "/", "s", ".", "w", "a", "v">>
PaddedUrl == <<" ", "k", "3", ".", "w", "a", "v", "\n">>
BlankUrl  == <<" ", "\t">>
EmptyUrl  == <<>>
BaseUrl   == <<"h", "t", "t", "p", "s", ":", "/", "/", "c", "d", "n", ".", "e", "x", "a", "m", "p", "l", "e", "/">>

\* category names: plain, with a slash, and starting with an underscore
Kick    == <<"k", "i", "c", "k">>
Snare   == <<"s", "n", "a", "r", "e">>
KickSub == <<"k", "i", "c", "k", "/", "0">>
Hidden  == <<"_", "x">>

\* what a category may hold: one URL string, an array of strings with blank
\* or non-string entries among them, or a value of another type
CategoryValues ==
  {VStr(RelUrl), VStr(AbsUrl), VStr(PaddedUrl), VStr(BlankUrl), VStr(EmptyUrl),
   VArr(<<VStr(RelUrl)>>), VArr(<<VStr(RelUrl), VStr(AbsUrl)>>),
   VArr(<<VStr(BlankUrl), VStr(RelUrl)>>), VArr(<<VStr(HttpUrl), VNum(<<"5">>)>>),
   VArr(<<VStr(RelUrl), VNull, VStr(PaddedUrl)>>), VArr(<<>>),
   VNum(<<"5">>), VNull, VObj(<<>>)}

FewValues == {VStr(RelUrl), VArr(<<VStr(RelUrl), VStr(AbsUrl)>>), VStr(BlankUrl)}

\* mappings from category name to value: one category, or two
Mappings ==
  {<<>>}
  \cup {<<Entry(k, v)>> : k \in {Kick, KickSub, Hidden}, v \in CategoryValues}
  \cup {<<Entry(k[1], v), Entry(k[2], w)>> :
          k \in {<<Kick, Snare>>, <<Hidden, Kick>>, <<Kick, KickSub>>, <<Kick, SOUNDS>>},
          v \in FewValues, w \in FewValues}

FewMappings ==
  {<<>>, <<Entry(Kick, VStr(RelUrl))>>, <<Entry(Hidden, VStr(RelUrl))>>,
   <<Entry(Kick, VArr(<<VStr(BlankUrl), VStr(AbsUrl)>>)), Entry(Snare, VStr(RelUrl))>>,
   <<Entry(SAMPLES, VStr(RelUrl))>>}

\* the _base property: none, a URL prefix, the empty string, null
BaseEntries ==
  {<<>>, <<Entry(BASE, VStr(BaseUrl))>>, <<Entry(BASE, VStr(<<>>))>>, <<Entry(BASE, VNull)>>}

\* the sounds property: none, a mapping, or a value of another type
SoundsEntries ==
  {<<>>}
  \cup {<<Entry(SOUNDS, VObj(m))>> : m \in FewMappings}
  \cup {<<Entry(SOUNDS, v)>> :
          v \in {VNull, VStr(<<>>), VStr(RelUrl), VNum(<<"0">>), VArr(<<VStr(AbsUrl)>>)}}

\* the samples property
SamplesEntries ==
  {<<>>, <<Entry(SAMPLES, VObj(<<Entry(Snare, VStr(AbsUrl))>>))>>,
   <<Entry(SAMPLES, VStr(HttpUrl))>>, <<Entry(SAMPLES, VNull)>>}

\* the manifests: flat ones, ones with sounds and samples properties (next to
\* a top-level category or not), and JSON values that are not objects
FlatManifests == {VObj(b \o m) : b \in BaseEntries, m \in Mappings}

NestedManifests ==
  {VObj(b \o s \o p \o k) :
     b \in BaseEntries, s \in SoundsEntries, p \in SamplesEntries,
     k \in {<<>>, <<Entry(Kick, VStr(RelUrl))>>}}

OtherManifests ==
  {VNull, VNum(<<"5">>), VStr(<<"k", "1">>), VArr(<<>>), VArr(<<VStr(RelUrl), VStr(AbsUrl)>>)}

\* the example of the URL resolution rule
ExampleManifest ==
  VObj(<<Entry(BASE, VStr(BaseUrl)), Entry(Kick, VArr(<<VStr(RelUrl), VStr(AbsUrl)>>))>>)

Manifests == FlatManifests \cup NestedManifests \cup OtherManifests \cup {ExampleManifest}

InitExtract ==
  /\ store = InitialStore
  /\ pendingImport = NoImport
  /\ json = NotJson
  /\ parsed = Thrown
  /\ localStorage \in setItem(store)
  /\ hydration = "merged"
  /\ manifest \in Manifests
  /\ extracted = NoSounds
  /\ HooksIdle
  /\ lastOp = Op("create")

\* extractSounds(strudelJson, owner, repo, path) for the search result
\* acme/drums:strudel.json
ExtractSounds ==
  /\ extracted' = extractSounds(manifest, "acme", "drums", "strudel.json")
  /\ lastOp' = [Op("extractSounds") EXCEPT
                  !.ok = extractSounds(manifest, "acme", "drums", "strudel.json").ok]
  /\ UNCHANGED <<store, pendingImport, json, parsed, localStorage, hydration, manifest, hooks>>

NextExtract == ExtractSounds

SpecExtract == InitExtract /\ [][NextExtract]_vars

-----------------------------------------------------------------------------
(* groupSoundsByCategory on its own *)

\* most sounds handed to one call
MaxSounds == 3

\* the categories of the sounds: ordinary names, names that are array
\* indices, the empty string, none at all, and a name Object.prototype has
GroupCategories ==
  {VStr(Kick), VStr(Snare), VStr(<<"8", "0", "8">>), VStr(<<"9">>),
   VStr(<<>>), VUndefined, VStr(<<"t", "o", "S", "t", "r", "i", "n", "g">>)}

\* the sound lists: the sound at position i has the id i
GroupInputs ==
  UNION { {[i \in 1..n |-> CategorisedSound(i, c[i])] : c \in [1..n -> GroupCategories]}
            : n \in 0..MaxSounds }

InitGroup ==
  /\ store = InitialStore
  /\ pendingImport = NoImport
  /\ json = NotJson
  /\ parsed = Thrown
  /\ localStorage \in setItem(store)
  /\ hydration = "merged"
  /\ manifest = NoManifest
  /\ extracted = NoSounds
  /\ grouping \in {Grouping(s, FALSE, TRUE, <<>>) : s \in GroupInputs}
  /\ loader = IdleLoader
  /\ searcher = IdleSearcher
  /\ player = IdlePlayer
  /\ lastOp = Op("create")

\* a card or the grid groups its sounds and enumerates the groups
GroupSoundsByCategory ==
  /\ ~grouping.done
  /\ LET acc == groupSoundsByCategory(grouping.sounds) IN
     grouping' = Grouping(grouping.sounds, TRUE, acc.ok, GroupEntries(acc.own))
  /\ lastOp' = Op("groupSoundsByCategory")
  /\ UNCHANGED <<store, pendingImport, json, parsed, localStorage, hydration,
                 manifest, extracted, loader, searcher, player>>

NextGroup == GroupSoundsByCategory

SpecGroup == InitGroup /\ [][NextGroup]_vars

-----------------------------------------------------------------------------
(* Loading repositories found by the search *)

\* the paths of the strudel.json files the search finds in acme/drums
Paths == {"strudel.json", "kits/strudel.json"}

\* what the fetched files may hold
LoadManifests ==
  {VObj(<<Entry(Kick, VStr(RelUrl))>>),
   VObj(<<Entry(BASE, VStr(BaseUrl)), Entry(Kick, VArr(<<VStr(RelUrl), VStr(AbsUrl)>>))>>),
   VObj(<<Entry(SOUNDS, VObj(<<Entry(Snare, VStr(AbsUrl))>>))>>),
   VNull}

\* getAllPreviewSounds and getAllSavedSounds: the sounds of every repository
\* of the collection, in order
getAllPreviewSounds(s) ==
  Flatten([i \in 1..Len(s.previewRepositories) |-> s.previewRepositories[i].sounds])

getAllSavedSounds(s) ==
  Flatten([i \in 1..Len(s.savedRepositories) |-> s.savedRepositories[i].sounds])

\* loadRepository's loadedRepo for a search item and the sounds extracted
LoadedItem(path, list) ==
  LoadedRepository("acme", "drums", path,
                   "https://github.com/acme/drums/blob/main/" \o path, list, FALSE)

\* loadRepository(item) once the manifest has been fetched and parsed:
\* extractSounds, then addPreview; an exception of extractSounds is reported
\* and nothing is added
LoadRepository ==
  \E path \in Paths, m \in LoadManifests :
    LET r == extractSounds(m, "acme", "drums", path) IN
    /\ manifest' = m
    /\ extracted' = r
    /\ store' = IF r.ok THEN addPreview(store, LoadedItem(path, r.list)) ELSE store
    /\ IF r.ok THEN Persist ELSE UNCHANGED localStorage
    /\ lastOp' = [OpOnRepo("loadRepository", LoadedItem(path, r.list)) EXCEPT !.ok = r.ok]
    /\ UNCHANGED <<pendingImport, json, parsed, hydration, hooks>>

\* RepositoryCard.handleToggleSave on a previewed repository
ToggleSave ==
  \E i \in 1..Len(store.previewRepositories) :
    LET previewRepo == store.previewRepositories[i]
        repoKey == getRepositoryKey(previewRepo)
    IN
    /\ store' = IF isSaved(store, repoKey)
                THEN unsaveRepository(store, repoKey)
                ELSE saveRepository(store, previewRepo)
    /\ Persist
    /\ lastOp' = OpOnRepo("handleToggleSave", previewRepo)
    /\ UNCHANGED dialog

\* a sound shown in the preview or the saved list starts to play
PlaySound ==
  \E snd \in Range(getAllPreviewSounds(store)) \cup Range(getAllSavedSounds(store)) :
    /\ store' = setCurrentlyPlaying(store, snd.id)
    /\ Persist
    /\ lastOp' = [Op("setCurrentlyPlaying") EXCEPT !.key = snd.id]
    /\ UNCHANGED dialog

NextLoad ==
  \/ LoadRepository
  \/ ToggleSave
  \/ PlaySound
  \/ ClearPreviews

SpecLoad == Init /\ [][NextLoad]_vars

-----------------------------------------------------------------------------
(* Loads in flight *)

\* most calls of loadRepository in one behaviour
MaxLoads == 3

\* what the network gives a load: a transport error, a text that is not
\* JSON, or a text that parses to a manifest
TransportError == [kind |-> "error", manifest |-> NoManifest]
InvalidJson == [kind |-> "invalid", manifest |-> NoManifest]
Fetched(m) == [kind |-> "json", manifest |-> m]

LoadResponses == {TransportError, InvalidJson} \cup {Fetched(m) : m \in LoadManifests}

\* fetchStrudelJson: fetchRawContent, then JSON.parse inside try/catch
fetchStrudelJson(path, response) ==
  CASE response.kind = "error" ->
         [ok |-> FALSE, manifest |-> NoManifest, message |-> "Failed to fetch"]
    [] response.kind = "invalid" ->
         [ok |-> FALSE, manifest |-> NoManifest,
          message |-> "Failed to parse JSON from acme/drums/" \o path]
    [] OTHER ->
         [ok |-> TRUE, manifest |-> response.manifest, message |-> ""]

\* the try block of loadRepository up to addPreview: the loadedRepo, or the
\* message of what was thrown
loadedRepo(path, response) ==
  LET strudelJson == fetchStrudelJson(path, response)
      sounds == extractSounds(strudelJson.manifest, "acme", "drums", path)
  IN  IF ~strudelJson.ok
      THEN [ok |-> FALSE, repo |-> NoRepo, message |-> strudelJson.message]
      ELSE IF ~sounds.ok
      THEN [ok |-> FALSE, repo |-> NoRepo,
            message |-> "Cannot read properties of null (reading '_base')"]
      ELSE [ok |-> TRUE, repo |-> LoadedItem(path, sounds.list), message |-> ""]

\* loadRepository that previews an empty repository when the load fails
settleLoad_PreviewsFailures(s, path, loaded) ==
  addPreview(s, IF loaded.ok THEN loaded.repo ELSE LoadedItem(path, <<>>))

\* what a settled loadRepository does to the store
settleLoad(s, path, loaded) ==
  IF loaded.ok THEN addPreview(s, loaded.repo) ELSE s

\* the key of the search item at a path
ItemKey(path) == getRepositoryKey(LoadedItem(path, <<>>))

\* App.handleLoadRepository(item), up to the await inside loadRepository.
\* The card's Load button is disabled while loadingItemPath is the item's
\* path and while the repository is in Preview; blocked items have no card.
HandleLoadRepository ==
  \E path \in Paths :
    /\ loader.issued < MaxLoads
    /\ loader.loadingItemPath # path
    /\ ~inPreview(store, ItemKey(path))
    /\ ~isBlocked(store, ItemKey(path))
    /\ loader' = [loader EXCEPT !.loadingItemPath = path,
                                !.isLoading = TRUE,
                                !.error = Null,
                                !.issued = @ + 1,
                                !.inFlight = @ \cup {LoadCall(loader.issued + 1, path)}]
    /\ lastOp' = [Op("handleLoadRepository") EXCEPT !.key = ItemKey(path)]
    /\ UNCHANGED <<store, localStorage, pendingImport, json, parsed, hydration,
                   manifest, extracted, grouping, searcher, player>>

\* the fetch of one of the calls in flight settles: the rest of loadRepository
\* (addPreview, or catch; then finally) and of handleLoadRepository (finally)
LoadSettled ==
  \E call \in loader.inFlight, response \in LoadResponses :
    LET loaded == loadedRepo(call.path, response) IN
    /\ store' = settleLoad(store, call.path, loaded)
    /\ IF loaded.ok THEN Persist ELSE UNCHANGED localStorage
    /\ loader' = [loader EXCEPT
                    !.error = IF loaded.ok THEN @ ELSE loaded.message,
                    !.isLoading = FALSE,
                    !.loadingItemPath = Undefined,
                    !.inFlight = @ \ {call},
                    !.answered = Append(@, Answer(call.id, call.path, loaded.ok,
                                                  loaded.repo, loaded.message))]
    /\ lastOp' = [Op("loadRepository") EXCEPT !.key = ItemKey(call.path),
                                               !.repo = loaded.repo,
                                               !.ok = loaded.ok]
    /\ UNCHANGED <<pendingImport, json, parsed, hydration, manifest, extracted,
                   grouping, searcher, player>>

NextLoading ==
  \/ HandleLoadRepository
  \/ LoadSettled

SpecLoading == Init /\ [][NextLoading]_vars

-----------------------------------------------------------------------------
(* Searches in flight: useGitHubSearch *)

\* most calls of search in one behaviour
MaxSearches == 3

PER_PAGE == 30

\* Math.ceil(totalCount / PER_PAGE)
totalPages(totalCount) == (totalCount + PER_PAGE - 1) \div PER_PAGE

\* a search item: its file name and its path
SearchItem(name, path) == [name |-> name, path |-> path]

\* GitHubSearchResult: {total_count, items}
SearchResult(total_count, items) == [total_count |-> total_count, items |-> items]

NoResult == SearchResult(0, <<>>)

StrudelJsonName == <<"s", "t", "r", "u", "d", "e", "l", ".", "j", "s", "o", "n">>

\* String.prototype.toLowerCase
lowerCase(chars) == [i \in 1..Len(chars) |-> toLowerCase(chars[i])]

\* the pages GitHub may answer with: one exact match of 31 results, a page of
\* 61 results holding a match in capitals and a near miss, and nothing
SearchResults ==
  {SearchResult(31, <<SearchItem(StrudelJsonName, "strudel.json")>>),
   SearchResult(61, <<SearchItem(<<"S", "t", "r", "u", "d", "e", "l", ".", "J", "S", "O", "N">>,
                                 "kits/Strudel.JSON"),
                      SearchItem(StrudelJsonName \o <<"5">>, "old/strudel.json5")>>),
   NoResult}

Queries == {"filename:strudel.json", "user:acme"}

\* the try block of search after the await
searchSucceeded_KeepsPage(h, page, data) ==
  [h EXCEPT !.results = SelectSeq(data.items, LAMBDA item : lowerCase(item.name) = StrudelJsonName),
            !.totalCount = data.total_count]

searchSucceeded(h, page, data) ==
  [h EXCEPT !.results = SelectSeq(data.items, LAMBDA item : lowerCase(item.name) = StrudelJsonName),
            !.totalCount = data.total_count,
            !.currentPage = page]

\* the catch block of search
searchFailed(h, message) ==
  [h EXCEPT !.error = message, !.results = <<>>, !.totalCount = 0]

\* search(query, page) up to the await
searchIssued(h, query, page) ==
  [h EXCEPT !.isLoading = TRUE,
            !.error = Null,
            !.issued = @ + 1,
            !.inFlight = @ \cup {SearchCall(h.issued + 1, query, page)}]

\* App.handleSearch(query): the SearchBar's form is disabled while isLoading
HandleSearch ==
  \E query \in Queries :
    /\ searcher.issued < MaxSearches
    /\ ~searcher.isLoading
    /\ searcher' = [searchIssued(searcher, query, 1) EXCEPT !.currentQuery = query]
    /\ lastOp' = Op("handleSearch")
    /\ UNCHANGED <<store, localStorage, pendingImport, json, parsed, hydration,
                   manifest, extracted, grouping, loader, player>>

\* App.handlePageChange(page): the pager is rendered while there are
\* results; search itself does not look at isLoading
HandlePageChange ==
  \E page \in 1..totalPages(searcher.totalCount) :
    /\ searcher.issued < MaxSearches
    /\ searcher.results # <<>>
    /\ searcher' = searchIssued(searcher, searcher.currentQuery, page)
    /\ lastOp' = Op("handlePageChange")
    /\ UNCHANGED <<store, localStorage, pendingImport, json, parsed, hydration,
                   manifest, extracted, grouping, loader, player>>

\* searchStrudelFiles settles for one of the calls in flight: the rest of
\* search (try or catch, then finally)
SearchSettled ==
  \E call \in searcher.inFlight, ok \in BOOLEAN, data \in SearchResults :
    /\ ok \/ data = NoResult
    /\ LET h == IF ok THEN searchSucceeded(searcher, call.page, data)
                     ELSE searchFailed(searcher, "GitHub API error")
       IN searcher' = [h EXCEPT !.isLoading = FALSE,
                                !.inFlight = @ \ {call},
                                !.answered = Append(@, SearchAnswer(call.id, call.page, ok, data))]
    /\ lastOp' = [Op("search") EXCEPT !.ok = ok]
    /\ UNCHANGED <<store, localStorage, pendingImport, json, parsed, hydration,
                   manifest, extracted, grouping, loader, player>>

NextSearch ==
  \/ HandleSearch
  \/ HandlePageChange
  \/ SearchSettled

SpecSearch == Init /\ [][NextSearch]_vars

-----------------------------------------------------------------------------
(* Playback: useAudioPlayer, the sound cards and the store *)

\* most calls of play in one behaviour
MaxPlays == 3

\* the library the sounds are played from: a repository with a kick in
\* Preview, and a saved repository with a snare
KickItem ==
  LoadedItem("strudel.json",
             extractSounds(VObj(<<Entry(Kick, VStr(RelUrl))>>),
                           "acme", "drums", "strudel.json").list)

SnareItem ==
  LoadedItem("kits/strudel.json",
             extractSounds(VObj(<<Entry(SOUNDS, VObj(<<Entry(Snare, VStr(AbsUrl))>>))>>),
                           "acme", "drums", "kits/strudel.json").list)

PlayerLibrary ==
  addPreview(saveRepository(addPreview(InitialStore, SnareItem), SnareItem), KickItem)

InitPlayer ==
  /\ store = PlayerLibrary
  /\ pendingImport = NoImport
  /\ json = NotJson
  /\ parsed = Thrown
  /\ localStorage \in setItem(store)
  /\ hydration = "merged"
  /\ manifest = NoManifest
  /\ extracted = NoSounds
  /\ HooksIdle
  /\ lastOp = Op("create")

\* the sounds that have a card: those of Preview and of Saved
ShownSounds == Range(getAllPreviewSounds(store)) \cup Range(getAllSavedSounds(store))

\* what a step of the player leaves alone
offstage == <<pendingImport, json, parsed, hydration, manifest, extracted,
              grouping, loader, searcher>>

\* SoundCard.handleClick on a card that does not show as playing:
\* App.handlePlaySound, play(sound.url, sound.id) up to its await
Play ==
  \E snd \in ShownSounds :
    /\ player.calls < MaxPlays
    /\ store.currentlyPlaying # snd.id
    /\ player' = play(player, snd.id)
    /\ lastOp' = [Op("play") EXCEPT !.key = snd.id]
    /\ UNCHANGED <<store, localStorage, offstage>>

\* playback of an element starts and the promise of its play() resolves:
\* the rest of play's try block
Started ==
  \E i \in 1..Len(player.elements) :
    /\ player.elements[i].promise
    /\ ~player.elements[i].failed
    /\ player' = [player EXCEPT !.elements[i].promise = FALSE,
                                !.elements[i].loaded = TRUE,
                                !.isPlaying = TRUE]
    /\ store' = setCurrentlyPlaying(store, player.elements[i].sound)
    /\ Persist
    /\ lastOp' = [Op("played") EXCEPT !.key = player.elements[i].sound]
    /\ UNCHANGED offstage

\* the continuation of a rejected play(): the catch block
Rejected ==
  \E i \in 1..Len(player.elements) :
    /\ player.elements[i].rejections > 0
    /\ player' = [player EXCEPT !.elements[i].rejections = @ - 1,
                                !.isPlaying = FALSE]
    /\ store' = setCurrentlyPlaying(store, Null)
    /\ Persist
    /\ lastOp' = [Op("playRejected") EXCEPT !.key = player.elements[i].sound, !.ok = FALSE]
    /\ UNCHANGED offstage

\* a sounding element reaches its end: it is paused and 'ended' is fired
Ended ==
  \E i \in 1..Len(player.elements) :
    /\ Sounding(player.elements[i])
    /\ player' = onEnded([player EXCEPT !.elements[i] =
                            [pauseElement(@) EXCEPT !.ended = TRUE]])
    /\ store' = setCurrentlyPlaying(store, Null)
    /\ Persist
    /\ lastOp' = [Op("ended") EXCEPT !.key = player.elements[i].sound]
    /\ UNCHANGED offstage

\* an element fails, while its data is still on the way (paused or not) or
\* while it sounds: 'error' is fired and the pending promise is rejected;
\* the paused attribute stays as it is
Error ==
  \E i \in 1..Len(player.elements) :
    /\ ~player.elements[i].failed
    /\ ~player.elements[i].loaded \/ Sounding(player.elements[i])
    /\ player' = onError([player EXCEPT !.elements[i] =
                            [@ EXCEPT !.failed = TRUE,
                                      !.promise = FALSE,
                                      !.rejections = IF player.elements[i].promise
                                                     THEN @ + 1 ELSE @]])
    /\ store' = setCurrentlyPlaying(store, Null)
    /\ Persist
    /\ lastOp' = [Op("error") EXCEPT !.key = player.elements[i].sound, !.ok = FALSE]
    /\ UNCHANGED offstage

\* SoundCard.handleClick on the card that shows as playing: App.handleStopSound
Stop ==
  /\ \E snd \in ShownSounds : store.currentlyPlaying = snd.id
  /\ player.audioRef # NoAudio
  /\ player' = stop(player)
  /\ store' = setCurrentlyPlaying(store, Null)
  /\ Persist
  /\ lastOp' = Op("stop")
  /\ UNCHANGED offstage

\* pause(), which the hook hands out
Pause ==
  /\ player.audioRef # NoAudio
  /\ ~player.elements[player.audioRef].paused
  /\ player' = pause(player)
  /\ store' = setCurrentlyPlaying(store, Null)
  /\ Persist
  /\ lastOp' = Op("pause")
  /\ UNCHANGED offstage

NextPlayer ==
  \/ Play
  \/ Started
  \/ Rejected
  \/ Ended
  \/ Error
  \/ Stop
  \/ Pause
  \/ ClearPreviews

SpecPlayer == InitPlayer /\ [][NextPlayer]_vars

-----------------------------------------------------------------------------
(* Properties of the library store *)

previewRepositories == store.previewRepositories
savedRepositories == store.savedRepositories
blockedRepos == store.blockedRepos

\* how many entries of repos have the key
CountKey(repos, key) ==
  Cardinality({i \in 1..Len(repos) : getRepositoryKey(repos[i]) = key})

\* no two entries of repos share a repository key
NoDuplicateKeys(repos) ==
  \A i, j \in 1..Len(repos) :
    getRepositoryKey(repos[i]) = getRepositoryKey(repos[j]) => i = j

\* repos with every entry of the key struck out, the rest in order
RECURSIVE Without(_, _)
Without(repos, key) ==
  IF repos = <<>> THEN <<>>
  ELSE IF getRepositoryKey(Head(repos)) = key
       THEN Without(Tail(repos), key)
       ELSE <<Head(repos)>> \o Without(Tail(repos), key)

\* no blocked key is the key of a previewed or saved repository
BlockedApart(s) ==
  \A k \in s.blockedRepos : ~inPreview(s, k) /\ ~isSaved(s, k)

\* the operations that put repositories or keys into a collection without
\* consulting the others
Adders ==
  {"addPreview", "saveRepository", "importRepositories", "importBlocklist",
   "loadCustomUrlRepository", "confirmImport"}

\* C1 (as claimed): after saveRepository(repo), from every prior state,
\* key(repo) is in Saved and no entry with key(repo) is in Preview.
C1_SavedAndNotPreviewed ==
  lastOp.name = "saveRepository" =>
    isSaved(store, lastOp.key) /\ ~inPreview(store, lastOp.key)

\* C1 (amended): after saveRepository(repo), key(repo) is in Saved; when it
\* was not in Saved before, no entry with key(repo) is left in Preview; when
\* it was already in Saved, the call changes nothing, so a Preview entry with
\* that key stays.
C1_SaveRepositoryPost ==
  [][lastOp'.name = "saveRepository" =>
       /\ isSaved(store', lastOp'.key)
       /\ IF isSaved(store, lastOp'.key)
          THEN store' = store
          ELSE ~inPreview(store', lastOp'.key)]_vars

\* C1 witness: saveRepository was called with a key that was both saved and
\* previewed.
C1_Witness ==
  /\ lastOp.name = "saveRepository"
  /\ lastOp.pre.saved /\ lastOp.pre.previewed
  /\ inPreview(store, lastOp.key)

\* C2 (as claimed): in every reachable state no blocked key is the key of an
\* entry in Preview or in Saved.
C2_BlockedNeverListed == BlockedApart(store)

\* C2 (amended): blockRepository(k) leaves k out of Preview and Saved, and
\* removePreview, clearPreviews, unsaveRepository, blockRepository,
\* unblockRepository and clearBlocklist keep "no blocked key is previewed or
\* saved" once it holds; addPreview, saveRepository, importRepositories,
\* importBlocklist and the custom-URL load do not consult Blocked and can
\* break it.
C2_BlockedApartKept ==
  [][/\ lastOp'.name = "blockRepository" =>
          ~inPreview(store', lastOp'.key) /\ ~isSaved(store', lastOp'.key)
     /\ (BlockedApart(store) /\ lastOp'.name \notin Adders) => BlockedApart(store')]_vars

\* C2 witness: a saved and previewed key has been blocked while another key
\* was already blocked, and no blocked key is listed.
C2_Witness ==
  /\ lastOp.name = "blockRepository"
  /\ lastOp.pre.saved /\ lastOp.pre.previewed
  /\ Cardinality(blockedRepos) = 2
  /\ BlockedApart(store)

\* C3 (as claimed): neither Preview nor Saved ever holds two entries with
\* the same repository key.
C3_NoDuplicates ==
  NoDuplicateKeys(previewRepositories) /\ NoDuplicateKeys(savedRepositories)

\* C3 (amended): Preview never holds two entries with the same key; Saved
\* holds two entries with the same key only through an importRepositories
\* whose list has them: every other operation keeps Saved free of duplicate
\* keys once it is.
C3_DuplicatesOnlyImported ==
  [][/\ NoDuplicateKeys(store'.previewRepositories)
     /\ (NoDuplicateKeys(store.savedRepositories) /\ lastOp'.name # "importRepositories")
          => NoDuplicateKeys(store'.savedRepositories)
     /\ lastOp'.name = "importRepositories"
          => (NoDuplicateKeys(store'.savedRepositories) <=> NoDuplicateKeys(lastOp'.repos))]_vars

\* C3 witness: addPreview on a key already previewed, next to another entry.
C3_Witness ==
  /\ lastOp.name = "addPreview"
  /\ lastOp.pre.previewed
  /\ Len(previewRepositories) = 2
  /\ Len(savedRepositories) >= 2

\* C4: after blockRepository(k), from every prior state, k is in Blocked, no
\* entry with key k is in Preview or Saved, isSaved(k) is false, isBlocked(k)
\* is true, and the entries with other keys are all still there in order.
C4_BlockRepositoryPost ==
  [][lastOp'.name = "blockRepository" =>
       LET k == lastOp'.key IN
       /\ k \in store'.blockedRepos
       /\ CountKey(store'.previewRepositories, k) = 0
       /\ CountKey(store'.savedRepositories, k) = 0
       /\ ~isSaved(store', k)
       /\ isBlocked(store', k)
       /\ store'.previewRepositories = Without(store.previewRepositories, k)
       /\ store'.savedRepositories = Without(store.savedRepositories, k)
       /\ store'.blockedRepos \ {k} = store.blockedRepos \ {k}]_vars

\* C4 witness: the blocked key was saved and previewed, and entries with
\* another key remain in both collections.
C4_Witness ==
  /\ lastOp.name = "blockRepository"
  /\ lastOp.pre.saved /\ lastOp.pre.previewed /\ ~lastOp.pre.blocked
  /\ previewRepositories # <<>>
  /\ savedRepositories # <<>>

\* C5: addPreview(repo) replaces the Preview entry with key(repo) where it
\* stands, length and other entries unchanged, or appends repo when there is
\* none; either way Preview then has exactly one entry for the key, and it is
\* repo.
C5_AddPreviewPost ==
  [][lastOp'.name = "addPreview" =>
       LET k   == lastOp'.key
           old == store.previewRepositories
           new == store'.previewRepositories
       IN  /\ CountKey(new, k) = 1
           /\ \A i \in 1..Len(new) : getRepositoryKey(new[i]) = k => new[i] = lastOp'.repo
           /\ IF CountKey(old, k) > 0
              THEN /\ Len(new) = Len(old)
                   /\ \A i \in 1..Len(old) :
                        IF getRepositoryKey(old[i]) = k
                        THEN new[i] = lastOp'.repo
                        ELSE new[i] = old[i]
              ELSE new = old \o <<lastOp'.repo>>]_vars

\* C5 witness: the key was previewed already, and the new payload now stands
\* first, before another entry.
C5_Witness ==
  /\ lastOp.name = "addPreview"
  /\ lastOp.pre.previewed
  /\ Len(previewRepositories) = 2
  /\ previewRepositories[1] = lastOp.repo
  /\ lastOp.repo.sounds = KickPair

\* C6: saveRepository with a key already in Saved leaves Saved exactly as it
\* was, the first payload kept; with a key not in Saved it appends repo, so
\* that Saved has exactly one entry for the key.
C6_SaveRepositoryIdempotent ==
  [][lastOp'.name = "saveRepository" =>
       IF CountKey(store.savedRepositories, lastOp'.key) > 0
       THEN store'.savedRepositories = store.savedRepositories
       ELSE /\ store'.savedRepositories = store.savedRepositories \o <<lastOp'.repo>>
            /\ CountKey(store'.savedRepositories, lastOp'.key) = 1]_vars

\* C6 witness: a second save of the key carried other sounds than the saved
\* entry, which is still the only entry of that key.
C6_Witness ==
  /\ lastOp.name = "saveRepository"
  /\ lastOp.pre.saved
  /\ CountKey(savedRepositories, lastOp.key) = 1
  /\ \A i \in 1..Len(savedRepositories) : savedRepositories[i] # lastOp.repo

-----------------------------------------------------------------------------
(* Properties of the import *)

\* C7: importRepositories(list) makes Saved exactly list, duplicates and
\* blocked keys included and nothing of the old Saved kept, and changes
\* nothing else in the store.
C7_ImportRepositoriesFrame ==
  [][lastOp'.name = "importRepositories" =>
       /\ store'.savedRepositories = lastOp'.repos
       /\ store'.previewRepositories = store.previewRepositories
       /\ store'.blockedRepos = store.blockedRepos
       /\ store'.collapsedRepos = store.collapsedRepos
       /\ store'.currentlyPlaying = store.currentlyPlaying
       /\ store'.customUrls = store.customUrls]_vars

\* C7 witness: a list with a repeated key has been imported over a library
\* that had a preview, a collapsed key, a playing sound and that key blocked.
C7_Witness ==
  /\ lastOp.name = "importRepositories"
  /\ ~NoDuplicateKeys(savedRepositories)
  /\ \E i \in 1..Len(savedRepositories) : isBlocked(store, getRepositoryKey(savedRepositories[i]))
  /\ previewRepositories # <<>>
  /\ store.collapsedRepos # {}
  /\ store.currentlyPlaying # Null

C9_MalformedImportAborts ==
  [][(lastOp'.name \in {"handleImport", "confirmImport"} /\ lastOp'.malformed) =>
       /\ ~lastOp'.ok
       /\ store' = store
       /\ lastOp'.name = "handleImport" => pendingImport' = pendingImport]_vars

\* C9 witness: the confirmation of an import met a malformed file, over a
\* library with saved, previewed, blocked and collapsed entries and a
\* registered custom URL.
C9_Witness ==
  /\ lastOp.name = "confirmImport"
  /\ lastOp.malformed
  /\ savedRepositories # <<>> /\ previewRepositories # <<>>
  /\ blockedRepos # {} /\ store.collapsedRepos # {}
  /\ store.customUrls # <<>>

\* a property the parsed value lacks: absent, or null
Lacks(v) == v.t \in {"absent", "null"}

InSync == localStorage \in setItem(store)

\* C12: across a restart of the application from a state whose durable part
\* has been persisted, Saved comes back with the same entries in the same
\* order, Blocked and Collapsed come back with the same members, Preview is
\* empty and currentlyPlaying is null.
C12_RestartKeepsDurableState ==
  [][(lastOp'.name = "restart" /\ InSync) =>
       /\ store'.savedRepositories = store.savedRepositories
       /\ store'.blockedRepos = store.blockedRepos
       /\ store'.collapsedRepos = store.collapsedRepos
       /\ store'.previewRepositories = <<>>
       /\ store'.currentlyPlaying = Null]_vars

\* C12 witness: the application has been restarted while a repository was
\* previewed and a sound playing, and came back with a saved repository, two
\* blocked keys and a collapsed key.
C12_Witness ==
  /\ lastOp.name = "restart" /\ lastOp.ok
  /\ lastOp.repos # <<>> /\ lastOp.key # Null
  /\ savedRepositories # <<>>
  /\ Cardinality(blockedRepos) = 2
  /\ store.collapsedRepos # {}

\* C13: when the application starts over a stored text that is corrupt or is
\* not JSON, the store starts as it does when nothing is stored, with Saved,
\* Blocked and Collapsed empty, and every store operation remains usable.
C13_CorruptStorageIsAbsent ==
  [][(lastOp'.name = "restart" /\ localStorage \in CorruptTexts) =>
       /\ store' = rehydrate(NothingStored).store
       /\ store'.savedRepositories = <<>>
       /\ store'.blockedRepos = {} /\ store'.collapsedRepos = {}
       /\ Usable']_vars

-----------------------------------------------------------------------------
(* Properties of the sound extractor *)

\* extractSounds has been applied to manifest
Extracted == lastOp.name = "extractSounds"

Emitted == extracted.list

\* the id of the sound at a 0-based position of a category
IdOf(category, index) == "acme/drums/" \o category \o "/" \o ToString(index)

\* the URL array of a category: its array, or its single value
UrlArray(value) == IF value.t = "array" THEN value.a ELSE <<value>>

\* the positions of a URL array that hold a string with something other than
\* white space in it
Audible(value) ==
  {n \in 1..Len(UrlArray(value)) :
     UrlArray(value)[n].t = "string" /\ trim(UrlArray(value)[n].s) # <<>>}

\* the prefix a manifest supplies: its _base when that is a string
BaseOf(m) ==
  IF GetProperty(m, BASE).t = "string" THEN GetProperty(m, BASE).s ELSE <<>>

\* the URL resolution rule, on a trimmed string
Resolved(u, m) ==
  IF startsWith(u, HTTP) \/ startsWith(u, HTTPS) THEN u ELSE BaseOf(m) \o u

\* sound s is the one made from position n of entry e of a container of m
MadeFrom(s, e, n, m) ==
  /\ n \in Audible(e.value)
  /\ s.category = Join(e.key)
  /\ s.id = IdOf(Join(e.key), n - 1)
  /\ s.url = Join(Resolved(trim(UrlArray(e.value)[n].s), m))

\* sound s is made from some position of some entry of container
ComesFrom(s, container, m) ==
  \E i \in 1..Len(ObjectEntries(container)) :
    \E n \in Audible(ObjectEntries(container)[i].value) :
      MadeFrom(s, ObjectEntries(container)[i], n, m)

HasKey(m, key) == m.t = "object" /\ \E i \in 1..Len(m.o) : m.o[i].key = key

\* a value that can hold categories: an object or an array
IsMapping(v) == v.t \in {"object", "array"}

\* The container whose entries are the categories: the sounds property when
\* it is an object or an array; the samples property when sounds is missing
\* or falsy and samples is an object or an array; the manifest itself otherwise.
Shape(m) ==
  IF VTruthy(GetProperty(m, SOUNDS))
  THEN (IF IsMapping(GetProperty(m, SOUNDS)) THEN "sounds" ELSE "flat")
  ELSE (IF IsMapping(GetProperty(m, SAMPLES)) THEN "samples" ELSE "flat")

Categories(m) ==
  CASE Shape(m) = "sounds"  -> GetProperty(m, SOUNDS)
    [] Shape(m) = "samples" -> GetProperty(m, SAMPLES)
    [] OTHER -> m

\* the names that start with an underscore, and the reserved names
Underscored == {Join(Hidden), Join(BASE)}
Reserved == Underscored \cup {Join(SOUNDS), Join(SAMPLES)}

HeldSounds == Range(getAllPreviewSounds(store)) \cup Range(getAllSavedSounds(store))

\* C15 (as claimed): no two distinct sounds of the repositories held in
\* Preview and Saved have the same id, so currentlyPlaying names at most one
\* sound.
C15_SoundIdsGloballyUnique ==
  \A s1 \in HeldSounds, s2 \in HeldSounds : s1 # s2 => s1.id # s2.id

\* C16: the ids of the sounds one extractSounds call returns are pairwise
\* distinct; the index of an id is the 0-based position of the sound's URL
\* in its category's URL array, and sounds of different categories differ in
\* the category part of their ids.
C16_IdsDistinctWithinCall ==
  (Extracted /\ extracted.ok) =>
    /\ \A i \in 1..Len(Emitted), j \in 1..Len(Emitted) :
         i # j => Emitted[i].id # Emitted[j].id
    /\ \A i \in 1..Len(Emitted) : ComesFrom(Emitted[i], Categories(manifest), manifest)

\* C16 witness: two categories have given sounds, each one at index 0.
C16_Witness ==
  /\ Extracted /\ extracted.ok
  /\ Len(Emitted) = 3
  /\ Emitted[1].id = IdOf("kick", 0) /\ Emitted[2].id = IdOf("kick", 1)
  /\ Emitted[3].id = IdOf("snare", 0)

\* C17 (as claimed): extractSounds returns a list, possibly empty, for every
\* parsed JSON value; it never raises.
C17_NeverRaises == Extracted => extracted.ok

\* sound s is made from the samples property: from an entry of its mapping,
\* or from samples read as a top-level category
FromSamples(s) ==
  \/ ComesFrom(s, GetProperty(manifest, SAMPLES), manifest)
  \/ \E n \in Audible(GetProperty(manifest, SAMPLES)) :
       MadeFrom(s, Entry(SAMPLES, GetProperty(manifest, SAMPLES)), n, manifest)

BothKeys == HasKey(manifest, SOUNDS) /\ HasKey(manifest, SAMPLES)

\* C18 (as claimed): of a manifest with a sounds key and a samples key, no
\* emitted sound comes from samples, whatever the value of sounds.
C18_SamplesIgnored ==
  (Extracted /\ extracted.ok /\ BothKeys) =>
    \A i \in 1..Len(Emitted) : ~FromSamples(Emitted[i])

\* C18 (amended): of a manifest with a sounds key and a samples key, when
\* sounds is an object or an array every emitted sound comes from an entry
\* of sounds and none from samples; when sounds is falsy and samples is an
\* object or an array, every emitted sound comes from an entry of samples;
\* when sounds is any other value the manifest is read as flat and samples
\* is one of its categories.
C18_SamplesIgnoredIfSoundsMapping ==
  (Extracted /\ extracted.ok /\ BothKeys) =>
    /\ IsMapping(GetProperty(manifest, SOUNDS)) =>
         \A i \in 1..Len(Emitted) :
           /\ ComesFrom(Emitted[i], GetProperty(manifest, SOUNDS), manifest)
           /\ ~FromSamples(Emitted[i])
    /\ (~VTruthy(GetProperty(manifest, SOUNDS)) /\ IsMapping(GetProperty(manifest, SAMPLES))) =>
         \A i \in 1..Len(Emitted) :
           ComesFrom(Emitted[i], GetProperty(manifest, SAMPLES), manifest)
    /\ (VTruthy(GetProperty(manifest, SOUNDS)) /\ ~IsMapping(GetProperty(manifest, SOUNDS))) =>
         \A i \in 1..Len(Emitted) : ComesFrom(Emitted[i], manifest, manifest)

\* C18 witness: sounds and samples are both mappings with a URL, and the
\* sounds emitted are those of sounds.
C18_Witness ==
  /\ Extracted /\ extracted.ok /\ BothKeys
  /\ GetProperty(manifest, SOUNDS).t = "object"
  /\ GetProperty(manifest, SAMPLES).t = "object"
  /\ Len(Emitted) = 2

\* the container the claim takes the categories from: sounds when the key
\* exists, else samples when that key exists, else the manifest itself
ClaimedCategories(m) ==
  IF HasKey(m, SOUNDS) THEN GetProperty(m, SOUNDS)
  ELSE IF HasKey(m, SAMPLES) THEN GetProperty(m, SAMPLES)
  ELSE m

\* every top-level property of a flat manifest whose name does not start
\* with an underscore gives its sounds
FlatCategoriesEmitted ==
  \A k \in 1..Len(ObjectEntries(manifest)) :
    LET e == ObjectEntries(manifest)[k] IN
    ~startsWith(e.key, <<"_">>) =>
      \A n \in Audible(e.value) :
        \E i \in 1..Len(Emitted) : MadeFrom(Emitted[i], e, n, manifest)

\* C19 (as claimed): a manifest is read as flat only when it has neither a
\* sounds nor a samples key, every top-level property of a flat manifest
\* whose name does not start with _ is a category, and no sound is emitted
\* with a category named _base, sounds, samples or starting with _.
C19_FlatOnlyWithoutKeys ==
  (Extracted /\ extracted.ok) =>
    /\ \A i \in 1..Len(Emitted) :
         /\ ComesFrom(Emitted[i], ClaimedCategories(manifest), manifest)
         /\ Emitted[i].category \notin Reserved
    /\ (~HasKey(manifest, SOUNDS) /\ ~HasKey(manifest, SAMPLES)) => FlatCategoriesEmitted

\* C19 (amended): a manifest is read as flat whenever the first truthy value
\* of sounds and samples is not an object or an array (it has neither key,
\* or sounds is a string or a number, or sounds is falsy and samples is not
\* an object or an array); of a flat manifest every top-level property whose
\* name does not start with _ is a category, sounds and samples included,
\* and no category starts with _; of a nested manifest every key of the
\* mapping is a category, whatever its name.
C19_FlatUnlessMapping ==
  (Extracted /\ extracted.ok) =>
    /\ \A i \in 1..Len(Emitted) : ComesFrom(Emitted[i], Categories(manifest), manifest)
    /\ Shape(manifest) = "flat" =>
         /\ FlatCategoriesEmitted
         /\ \A i \in 1..Len(Emitted) : Emitted[i].category \notin Underscored
    /\ Shape(manifest) # "flat" =>
         \A k \in 1..Len(ObjectEntries(Categories(manifest))) :
           LET e == ObjectEntries(Categories(manifest))[k] IN
           \A n \in Audible(e.value) :
             \E i \in 1..Len(Emitted) : MadeFrom(Emitted[i], e, n, manifest)

\* C19 witness: a flat manifest with a _base, a property starting with _ and
\* a category has given the sounds of the category only.
C19_Witness ==
  /\ Extracted /\ extracted.ok
  /\ Shape(manifest) = "flat"
  /\ HasKey(manifest, BASE) /\ HasKey(manifest, Hidden) /\ HasKey(manifest, Kick)
  /\ Audible(GetProperty(manifest, Hidden)) # {}
  /\ Len(Emitted) = 2 /\ Emitted[1].category = "kick"

\* C20: the url of an emitted sound is the trimmed manifest string itself
\* when that starts with http:// or https://, and otherwise _base followed
\* by it, or the string itself when there is no _base; so _base
\* https://cdn.example/ with kick: [k1.wav, https://other.cdn/k2.wav] gives
\* https://cdn.example/k1.wav and https://other.cdn/k2.wav under the ids
\* acme/drums/kick/0 and acme/drums/kick/1.
C20_UrlResolution ==
  (Extracted /\ extracted.ok) =>
    /\ \A i \in 1..Len(Emitted) :
         \/ ComesFrom(Emitted[i], manifest, manifest)
         \/ ComesFrom(Emitted[i], GetProperty(manifest, SOUNDS), manifest)
         \/ ComesFrom(Emitted[i], GetProperty(manifest, SAMPLES), manifest)
    /\ manifest = ExampleManifest =>
         /\ Len(Emitted) = 2
         /\ Emitted[1].url = "https://cdn.example/k1.wav"
         /\ Emitted[1].id = "acme/drums/kick/0"
         /\ Emitted[2].url = "https://other.cdn/k2.wav"
         /\ Emitted[2].id = "acme/drums/kick/1"

\* C20 witness: a nested manifest with a _base has given a relative URL
\* behind the base and an absolute one unchanged.
C20_Witness ==
  /\ Extracted /\ extracted.ok
  /\ Shape(manifest) = "sounds"
  /\ BaseOf(manifest) = BaseUrl
  /\ \E i \in 1..Len(Emitted) : Emitted[i].url = "https://other.cdn/k2.wav"
  /\ \E i \in 1..Len(Emitted) : Emitted[i].url = "https://cdn.example/k1.wav"

-----------------------------------------------------------------------------
(* Properties of the grouping *)

\* the label the claim gives a sound: its category, or uncategorized
LabelOf(sound) == IF sound.category.t = "string" /\ sound.category.s # <<>>
                  THEN sound.category.s ELSE UNCATEGORIZED

\* the position of the first sound of the input that has the label
FirstOccurrence(label) ==
  CHOOSE i \in 1..Len(grouping.sounds) :
    /\ LabelOf(grouping.sounds[i]) = label
    /\ \A j \in 1..(i - 1) : LabelOf(grouping.sounds[j]) # label

\* C21: groupSoundsByCategory partitions its input: every sound is in
\* exactly one group, the one labelled by its category (uncategorized when
\* it has none); the groups are enumerated in the order in which their
\* categories first occur in the input, whatever the category names are;
\* the sounds of a group are in input order.
C21_GroupsInFirstSeenOrder ==
  grouping.done =>
    /\ grouping.ok
    /\ \A i \in 1..Len(grouping.sounds) :
         \E g \in 1..Len(grouping.entries) :
           /\ grouping.entries[g].key = LabelOf(grouping.sounds[i])
           /\ \E n \in 1..Len(grouping.entries[g].value) :
                grouping.entries[g].value[n] = grouping.sounds[i]
    /\ \A g \in 1..Len(grouping.entries) :
         LET members == grouping.entries[g].value IN
         /\ \A n \in 1..Len(members) : LabelOf(members[n]) = grouping.entries[g].key
         /\ \A n, m \in 1..Len(members) : n < m => members[n].id < members[m].id
    /\ \A g, h \in 1..Len(grouping.entries) :
         g < h => FirstOccurrence(grouping.entries[g].key)
                    < FirstOccurrence(grouping.entries[h].key)

-----------------------------------------------------------------------------
(* Properties of loads in flight *)

\* the positions in answered of the loads of a path that succeeded
Succeeded(path) ==
  {i \in 1..Len(loader.answered) : loader.answered[i].path = path /\ loader.answered[i].ok}

\* the Preview entries of a key
PreviewEntries(key) ==
  {i \in 1..Len(store.previewRepositories) :
     getRepositoryKey(store.previewRepositories[i]) = key}

\* C22: loads of one repository key that are in flight together settle
\* independently, and once their responses have been applied Preview holds
\* exactly one entry for the key, with the payload of the response that
\* arrived last, whichever load was issued last; loads of different keys
\* are all in Preview.
C22_LastResponseWins ==
  \A path \in Paths :
    Succeeded(path) # {} =>
      LET last == CHOOSE i \in Succeeded(path) : \A j \in Succeeded(path) : j <= i IN
      /\ Cardinality(PreviewEntries(ItemKey(path))) = 1
      /\ \A i \in PreviewEntries(ItemKey(path)) :
           store.previewRepositories[i] = loader.answered[last].repo

\* C22 witness: two loads of one key were in flight together, the one issued
\* later was answered first, each brought its own payload, and a load of the
\* other key has been answered as well.
C22_Witness ==
  /\ \E i, j \in 1..Len(loader.answered) :
       /\ i < j
       /\ loader.answered[i].path = loader.answered[j].path
       /\ loader.answered[i].id > loader.answered[j].id
       /\ loader.answered[i].ok /\ loader.answered[j].ok
       /\ loader.answered[i].repo # loader.answered[j].repo
       /\ \E n \in PreviewEntries(ItemKey(loader.answered[j].path)) :
            store.previewRepositories[n] = loader.answered[j].repo
  /\ \A path \in Paths : Succeeded(path) # {}

\* the calls of loadRepository that have started and not yet completed
LoadsInFlight == loader.inFlight

\* C29 (as claimed): isLoading of useStrudelJson and loadingItemPath of App
\* are set exactly while at least one load has started and not completed,
\* also when two loads overlap and the first finishes before the second.
C29_LoadingWhileInFlight ==
  /\ loader.isLoading <=> LoadsInFlight # {}
  /\ loader.loadingItemPath # Undefined <=> LoadsInFlight # {}

\* the load answered by the step, when the step is the settling of a load
Settled(before, after) ==
  /\ Len(after.answered) = Len(before.answered) + 1
  /\ after.inFlight # before.inFlight

\* C26: a load that fails, by a transport error or by a manifest text that
\* is not JSON, reports one error to its caller and leaves Preview, Saved,
\* Blocked and Collapsed as they were: addPreview is not called, and the
\* repositories loaded before are untouched.
C26_FailedLoadChangesNothing ==
  [][ (Settled(loader, loader') /\ ~loader'.answered[Len(loader'.answered)].ok) =>
        /\ store' = store
        /\ localStorage' = localStorage
        /\ loader'.error = loader'.answered[Len(loader'.answered)].message
        /\ loader'.error # Null /\ loader'.error # ""
        /\ ~lastOp'.ok ]_vars

\* C26 witness: with a repository in Preview, a later load has failed on a
\* text that is not JSON and the preview is still there.
C26_Witness ==
  /\ Len(loader.answered) >= 2
  /\ loader.answered[1].ok
  /\ ~loader.answered[Len(loader.answered)].ok
  /\ loader.error = "Failed to parse JSON from acme/drums/kits/strudel.json"
  /\ lastOp.name = "loadRepository" /\ ~lastOp.ok
  /\ store.previewRepositories = <<loader.answered[1].repo>>

-----------------------------------------------------------------------------
(* Properties of searches in flight *)

\* the items of a response whose name is strudel.json, whatever the case
Matching(data) ==
  SelectSeq(data.items, LAMBDA item : lowerCase(item.name) = StrudelJsonName)

\* C23: when searches overlap and succeed, results, totalCount and
\* currentPage are all those of the response that arrived last, whichever
\* search was issued last; values of two responses are never mixed.
C23_LastSearchWins ==
  (searcher.answered # <<>> /\ searcher.answered[Len(searcher.answered)].ok) =>
    LET last == searcher.answered[Len(searcher.answered)] IN
    /\ searcher.results = Matching(last.data)
    /\ searcher.totalCount = last.data.total_count
    /\ searcher.currentPage = last.page

\* C23 witness: two searches were in flight together and both succeeded, the
\* one issued later was answered first, with another page, count and items.
C23_Witness ==
  \E i, j \in 1..Len(searcher.answered) :
    /\ i < j /\ j = Len(searcher.answered)
    /\ searcher.answered[i].ok /\ searcher.answered[j].ok
    /\ searcher.answered[i].id > searcher.answered[j].id
    /\ searcher.answered[i].page # searcher.answered[j].page
    /\ searcher.answered[i].data.total_count # searcher.answered[j].data.total_count
    /\ Matching(searcher.answered[i].data) # Matching(searcher.answered[j].data)
    /\ searcher.currentPage = searcher.answered[j].page
    /\ searcher.results # <<>>

-----------------------------------------------------------------------------
(* Properties of playback *)

Unpaused == {i \in 1..Len(player.elements) : ~player.elements[i].paused}

\* C24: whatever the order of play, pause and stop calls and of ended and
\* error events, a second play issued while the first is pending included,
\* at most one audio element is not paused: play pauses and lets go of the
\* previous element before the new one starts, so only the element audioRef
\* holds can be un-paused.
C24_OneElementUnpaused ==
  /\ Cardinality(Unpaused) <= 1
  /\ \A i \in Unpaused : player.audioRef = i

\* C24 witness: a second sound was played while the play of the first was
\* pending: the first element is paused with its rejection still to be
\* handled, and the second element, the one audioRef holds, is not paused.
C24_Witness ==
  /\ Len(player.elements) >= 2
  /\ player.elements[1].paused /\ player.elements[1].rejections > 0
  /\ ~player.elements[1].loaded
  /\ player.elements[2].sound # player.elements[1].sound
  /\ ~player.elements[2].paused
  /\ player.audioRef = 2

\* C28 (as claimed): the store's currentlyPlaying agrees with the player
\* under every interleaving of play, pause, stop, clearPreviews and the
\* ended and error events: while an element sounds, currentlyPlaying is the
\* id of its sound, and while currentlyPlaying is null no element sounds.
C28_StoreAgreesWithPlayer ==
  /\ \A i \in 1..Len(player.elements) :
       Sounding(player.elements[i]) => store.currentlyPlaying = player.elements[i].sound
  /\ store.currentlyPlaying = Null =>
       \A i \in 1..Len(player.elements) : ~Sounding(player.elements[i])

-----------------------------------------------------------------------------
(* Custom URLs, the stored state and the blocklist *)

\* C25 (as claimed): after a successful loadCustomUrlRepository(url, name),
\* from any store state, one where a repository with the same key
\* custom/<slug>/strudel.json is already saved included, the loaded
\* repository is in Saved and Preview holds no entry with its key.
C25_CustomUrlSavedNotPreviewed ==
  [][lastOp'.name = "loadCustomUrlRepository" =>
       /\ \E i \in 1..Len(store'.savedRepositories) :
            store'.savedRepositories[i] = lastOp'.repo
       /\ ~inPreview(store', lastOp'.key)]_vars

\* the store operations, as opposed to a restart or a change of the stored
\* text from outside
Mutation(name) == name \notin {"create", "restart", "storageReplaced"}

\* C27: after every store mutation the state written to the key-value
\* medium is the durable subset of the state in memory: the stored
\* savedRepositories is Saved in order, the stored collapsedRepos and
\* blockedRepos are lists of exactly the members of Collapsed and Blocked,
\* and nothing of previewRepositories or currentlyPlaying is stored.
C27_StoredIsDurableSubset ==
  [][Mutation(lastOp'.name) =>
       /\ localStorage'.kind = "state"
       /\ localStorage'.version = PERSIST_VERSION
       /\ localStorage'.state.savedRepositories = JArr(store'.savedRepositories)
       /\ IsArray(localStorage'.state.collapsedRepos)
       /\ Range(localStorage'.state.collapsedRepos.a) = store'.collapsedRepos
       /\ Len(localStorage'.state.collapsedRepos.a) = Cardinality(store'.collapsedRepos)
       /\ IsArray(localStorage'.state.blockedRepos)
       /\ Range(localStorage'.state.blockedRepos.a) = store'.blockedRepos
       /\ Len(localStorage'.state.blockedRepos.a) = Cardinality(store'.blockedRepos)
       /\ localStorage'.state.favoriteRepos = Absent
       /\ localStorage'.state.loadedRepositories = Absent
       /\ DOMAIN partialize(store') = {"savedRepositories", "collapsedRepos", "blockedRepos"}]_vars

\* C27 witness: a mutation has written the state while a repository was
\* previewed and a sound playing, and the stored lists have members.
C27_Witness ==
  /\ Mutation(lastOp.name)
  /\ store.previewRepositories # <<>>
  /\ store.currentlyPlaying # Null
  /\ store.savedRepositories # <<>>
  /\ Len(localStorage.state.blockedRepos.a) = 2
  /\ localStorage.state.collapsedRepos.a # <<>>
  /\ localStorage.state.savedRepositories = JArr(store.savedRepositories)

\* C30: unblockRepository(k) and clearBlocklist() change Blocked only:
\* Preview, Saved, Collapsed and currentlyPlaying stay as they are, so what
\* blockRepository(k) took out of Saved or Preview is not brought back by
\* an unblock; and unblockRepository(k) right after a blockRepository(k) of
\* a key that was not blocked leaves Blocked with the members it had before.
C30_UnblockChangesBlockedOnly ==
  [][/\ lastOp'.name \in {"unblockRepository", "clearBlocklist"} =>
          /\ store'.previewRepositories = store.previewRepositories
          /\ store'.savedRepositories = store.savedRepositories
          /\ store'.collapsedRepos = store.collapsedRepos
          /\ store'.currentlyPlaying = store.currentlyPlaying
          /\ store'.customUrls = store.customUrls
     /\ lastOp'.name = "unblockRepository" =>
          store'.blockedRepos = store.blockedRepos \ {lastOp'.key}
     /\ lastOp'.name = "clearBlocklist" => store'.blockedRepos = {}
     /\ (/\ lastOp.name = "blockRepository" /\ ~lastOp.pre.blocked
         /\ lastOp'.name = "unblockRepository" /\ lastOp'.key = lastOp.key) =>
          /\ lastOp.key \notin store'.blockedRepos
          /\ store'.blockedRepos \cup {lastOp.key} = store.blockedRepos
          /\ ~isSaved(store', lastOp.key)
          /\ ~inPreview(store', lastOp.key)]_vars

\* C30 witness: a key has been unblocked while another key stays blocked and
\* other repositories are previewed and saved; the unblocked key is in
\* neither collection.
C30_Witness ==
  /\ lastOp.name = "unblockRepository" /\ lastOp.pre.blocked
  /\ ~isBlocked(store, lastOp.key)
  /\ store.blockedRepos # {}
  /\ store.previewRepositories # <<>>
  /\ store.savedRepositories # <<>>
  /\ ~isSaved(store, lastOp.key) /\ ~inPreview(store, lastOp.key)

====
